---- MODULE Spec2Model ----
(***************************************************************************)
(* A model of the orchestrator core of swe_agent_system: the execution     *)
(* state machine (orchestrator/state_machine.py), the retry and budget     *)
(* policies (orchestrator/policies.py) and the engine that walks the state *)
(* machine and invokes the stage workers (orchestrator/engine.py).         *)
(*                                                                         *)
(* Python values are represented as follows.  A dict is a function from    *)
(* its keys (strings) to values; d.get(k, default) is Get(d, k, default).  *)
(* An optional argument is a sequence of length 0 (None) or 1.  The text   *)
(* of an exception is a sequence of one-character strings, so that         *)
(* str(e).lower() and the substring tests of the retry policy are          *)
(* computed and not assumed.                                               *)
(***************************************************************************)
EXTENDS Integers, Sequences, FiniteSets, TLC

VARIABLES
    current_state,   \* StateMachine.current_state of the Orchestrator's machine
    state_history,   \* StateMachine.state_history
    agents,          \* Orchestrator.agents: registered name -> the kind of worker registered
    budget,          \* Orchestrator.policy_manager.budget: the BudgetPolicy's two token limits
    context,         \* the ExecutionContext of the current process_issue call
    pc,              \* position of process_issue: "idle", "loop", "exec"
    attempt,         \* _execute_agent's local attempt
    last_error,      \* _execute_agent's local last_error (None or one exception)
    events,          \* events of the tracer's trace for the current call
    trace,           \* [open, status, completions]: the tracer's current trace
    sleeps,          \* the delays passed to time.sleep during the current call
    calls,           \* number of process_issue calls begun on this Orchestrator
    outcome,         \* how the last call ended: "none", "returned", "raised"
    invoked,         \* number of agent.execute calls made during the current call
    faulty_visits,   \* number of stage visits of the current call in which a worker raised
    sm_call,         \* the last direct call made on a stand-alone StateMachine
    now,             \* time.time(), in seconds
    remote,          \* the GitHub side: [remaining, limit, reset_at, up]
    cached_limits,   \* RateLimiter.cached_limits (None or one limits dict)
    last_check,      \* RateLimiter.last_check
    rl_pc,           \* per caller of wait_if_needed: "idle" or "sleeping"
    rl_wake,         \* per sleeping caller: when its asyncio.sleep ends
    rl_frame,        \* per sleeping caller: its estimated_cost and its limits
    admitted,        \* the calls that wait_if_needed has let through, in order
    policy_call,     \* the last direct call made on a stand-alone RetryPolicy
    current_run,     \* SWEBenchRunner.current_run
    files,           \* output_dir: the JSON document stored under each run id
    utcnow,          \* the instant datetime.utcnow() returns next
    uuid_count,      \* how many run ids uuid4 has produced
    bench_call,      \* the last call made on the SWEBenchRunner
    completed_runs,  \* each run as it was when complete_run returned for it
    _locks,          \* CircuitLocker._locks: the lock held on each locked circuit
    _agent_operations, \* CircuitLocker._agent_operations: agent -> circuits
    blocks,          \* the acquire_lock blocks each agent is inside, innermost last
    locker_time,     \* time.time() as the CircuitLocker reads it, in seconds
    _resources,      \* QuantumResourceManager._resources
    _allocations,    \* QuantumResourceManager._allocations
    rm_time,         \* time.time() as the resource manager reads it, in microseconds
    rm_call,         \* the last call made on the resource manager
    _task_queue,     \* MultiAgentCoordinator._task_queue, in the order it is served
    agent_queues,    \* each QuantumAgent's _task_queue
    _agent_loads,    \* MultiAgentCoordinator._agent_loads
    submitted,       \* per task: what submit_task was asked, what _select_agent
                     \* returned, and the agent the task was given to
    _agents,         \* AgentCommunication._agents: agent id -> agent reference
    _subscribers,    \* MessageQueue._subscribers: message type -> agents
    message_queue,   \* MessageQueue._queue
    sent,            \* each broadcast_message call: its arguments, the
                     \* subscribers when it enqueued, and whether it returned
    delivered        \* the handle_message calls made: message and recipient

vars == <<current_state, state_history, agents, budget, context, pc, attempt, last_error,
          events, trace, sleeps, calls, outcome, invoked, faulty_visits, sm_call,
          now, remote, cached_limits, last_check, rl_pc, rl_wake, rl_frame, admitted,
          policy_call, current_run, files, utcnow, uuid_count, bench_call, completed_runs,
          _locks, _agent_operations, blocks, locker_time,
          _resources, _allocations, rm_time, rm_call,
          _task_queue, agent_queues, _agent_loads, submitted,
          _agents, _subscribers, message_queue, sent, delivered>>

limiter_vars == <<now, remote, cached_limits, last_check, rl_pc, rl_wake, rl_frame,
                  admitted>>

policy_vars == <<policy_call>>

bench_vars == <<current_run, files, utcnow, uuid_count, bench_call, completed_runs>>

locker_vars == <<_locks, _agent_operations, blocks, locker_time>>

resource_vars == <<_resources, _allocations, rm_time, rm_call>>

coordinator_vars == <<_task_queue, agent_queues, _agent_loads, submitted>>

communication_vars == <<_agents, _subscribers, message_queue, sent, delivered>>

qma_vars == <<locker_vars, resource_vars, coordinator_vars, communication_vars>>

engine_vars == <<agents, budget, context, pc, attempt, last_error, events, trace, sleeps,
                 calls, outcome, invoked, faulty_visits>>

(***************************************************************************)
(* Bounds of the model.                                                    *)
(***************************************************************************)
\* a call on stub workers stops being extended once state_history holds this
\* many entries
MaxHist == 16
\* the same for a call on metered, failing or faulty workers
MaxWideHist == 9
\* process_issue calls made on one Orchestrator instance
MaxCalls == 2
\* stage visits per call in which the worker may raise
MaxFaultyVisits == 1
\* retries per call that a flaky worker may cause
MaxFlakyRetries == 5
\* entries of state_history explored on a stand-alone StateMachine
MaxSMHist == 12
\* the largest ordinary attempt index passed to a stand-alone RetryPolicy
MaxAttempt == 8
\* runs started on one SWEBenchRunner, results recorded in one run, and
\* readings of the clock
MaxRuns == 2
MaxResults == 2
MaxInstant == 4
\* calls made through one RateLimiter, and the seconds for which it is followed
MaxRequests == 2
MaxElapsed == 3700

\* circuits one agent may be inside acquire_lock blocks on at once, and the
\* seconds for which a CircuitLocker is followed
MaxDepth == 2
MaxLockerTime == 62
\* broadcasts made through one AgentCommunication
MaxBroadcasts == 2
\* tasks submitted to one MultiAgentCoordinator, and the largest key with
\* which a refused task is put back on its queue
MaxTasks == 3
MaxKey == 0
\* allocate_resource calls made on one QuantumResourceManager
MaxAllocations == 3

(***************************************************************************)
(* Python helpers.                                                         *)
(***************************************************************************)
None == <<>>
Some(v) == <<v>>

EmptyDict == [k \in {} |-> TRUE]
Get(d, k, default) == IF k \in DOMAIN d THEN d[k] ELSE default

\* bool(x) of a str and of a list
bool_str(s) == s # ""
bool_list(l) == l # <<>>

\* str.lower() on one character and on a text
LowerChar(c) ==
    CASE c = "A" -> "a" [] c = "B" -> "b" [] c = "C" -> "c" [] c = "D" -> "d"
      [] c = "E" -> "e" [] c = "F" -> "f" [] c = "G" -> "g" [] c = "H" -> "h"
      [] c = "I" -> "i" [] c = "J" -> "j" [] c = "K" -> "k" [] c = "L" -> "l"
      [] c = "M" -> "m" [] c = "N" -> "n" [] c = "O" -> "o" [] c = "P" -> "p"
      [] c = "Q" -> "q" [] c = "R" -> "r" [] c = "S" -> "s" [] c = "T" -> "t"
      [] c = "U" -> "u" [] c = "V" -> "v" [] c = "W" -> "w" [] c = "X" -> "x"
      [] c = "Y" -> "y" [] c = "Z" -> "z"
      [] OTHER -> c
lower(s) == [i \in 1..Len(s) |-> LowerChar(s[i])]
\* the Python test `sub in s` on texts
Contains(s, sub) ==
    \E i \in 1..(Len(s) - Len(sub) + 1) : SubSeq(s, i, i + Len(sub) - 1) = sub

Min(S) == CHOOSE x \in S : \A y \in S : x <= y

\* `del d[k]` for every k of ks, and `d[k] = v`
DictDel(d, ks) == [k \in DOMAIN d \ ks |-> d[k]]
DictPut(d, k, v) == [x \in DOMAIN d \cup {k} |-> IF x = k THEN v ELSE d[x]]

(***************************************************************************)
(* orchestrator/state_machine.py                                           *)
(***************************************************************************)
ExecutionState ==
    {"PENDING", "ANALYZING", "ASSESSING", "PLANNING", "GENERATING",
     "REVIEWING", "VALIDATING", "COMPLETE", "FAILED"}

\* retry_code_generation's literal 3 and token_budget_ok's literal 100000
MAX_REWORK == 3
TOKEN_LIMIT == 100000

has_issue_analysis(c) == bool_str(Get(c.issue_analysis, "summary", ""))
has_impact_assessment(c) == bool_str(Get(c.impact_assessment, "severity", ""))
has_execution_plan(c) == bool_str(Get(c.execution_plan, "plan_summary", ""))
has_generated_patches(c) == bool_list(Get(c.generated_patch, "patches", <<>>))
review_passed(c) == ~Get(c.review_result, "requires_changes", FALSE)
\* `x is not False`: only the value False itself fails the test
validation_passed(c) == Get(c.validation_result, "tests_passed", FALSE) # FALSE
retry_code_generation(c) == c.retry_count < MAX_REWORK
token_budget_ok(c) == c.tokens_used < TOKEN_LIMIT

StateTransition(f, t, g) == [from_state |-> f, to_state |-> t, guard |-> g]

\* the table with one more entry: a failed run may be restarted
VALID_TRANSITIONS_with_restart ==
    << StateTransition("PENDING", "ANALYZING", "token_budget_ok"),
       StateTransition("ANALYZING", "ASSESSING", "has_issue_analysis"),
       StateTransition("ASSESSING", "PLANNING", "has_impact_assessment"),
       StateTransition("PLANNING", "GENERATING", "has_execution_plan"),
       StateTransition("GENERATING", "REVIEWING", "has_generated_patches"),
       StateTransition("REVIEWING", "VALIDATING", "review_passed"),
       StateTransition("VALIDATING", "COMPLETE", "validation_passed"),
       StateTransition("REVIEWING", "GENERATING", "retry_code_generation"),
       StateTransition("VALIDATING", "GENERATING", "retry_code_generation"),
       StateTransition("ANALYZING", "FAILED", "None"),
       StateTransition("ASSESSING", "FAILED", "None"),
       StateTransition("PLANNING", "FAILED", "None"),
       StateTransition("GENERATING", "FAILED", "None"),
       StateTransition("REVIEWING", "FAILED", "None"),
       StateTransition("VALIDATING", "FAILED", "None"),
       StateTransition("FAILED", "ANALYZING", "None") >>

VALID_TRANSITIONS ==
    << StateTransition("PENDING", "ANALYZING", "token_budget_ok"),
       StateTransition("ANALYZING", "ASSESSING", "has_issue_analysis"),
       StateTransition("ASSESSING", "PLANNING", "has_impact_assessment"),
       StateTransition("PLANNING", "GENERATING", "has_execution_plan"),
       StateTransition("GENERATING", "REVIEWING", "has_generated_patches"),
       StateTransition("REVIEWING", "VALIDATING", "review_passed"),
       StateTransition("VALIDATING", "COMPLETE", "validation_passed"),
       StateTransition("REVIEWING", "GENERATING", "retry_code_generation"),
       StateTransition("VALIDATING", "GENERATING", "retry_code_generation"),
       StateTransition("ANALYZING", "FAILED", "None"),
       StateTransition("ASSESSING", "FAILED", "None"),
       StateTransition("PLANNING", "FAILED", "None"),
       StateTransition("GENERATING", "FAILED", "None"),
       StateTransition("REVIEWING", "FAILED", "None"),
       StateTransition("VALIDATING", "FAILED", "None") >>

\* transition.guard(context)
CallGuard(g, c) ==
    CASE g = "token_budget_ok" -> token_budget_ok(c)
      [] g = "has_issue_analysis" -> has_issue_analysis(c)
      [] g = "has_impact_assessment" -> has_impact_assessment(c)
      [] g = "has_execution_plan" -> has_execution_plan(c)
      [] g = "has_generated_patches" -> has_generated_patches(c)
      [] g = "review_passed" -> review_passed(c)
      [] g = "validation_passed" -> validation_passed(c)
      [] g = "retry_code_generation" -> retry_code_generation(c)

\* self._transitions.get(state, []): the declared transitions out of a state,
\* in declaration order
_build_transition_map(state) ==
    SelectSeq(VALID_TRANSITIONS, LAMBDA t : t.from_state = state)

\* can_transition_to that never calls the guard
can_transition_to_unguarded(state, target_state, ctx) ==
    \E i \in 1..Len(VALID_TRANSITIONS) :
        /\ VALID_TRANSITIONS[i].from_state = state
        /\ VALID_TRANSITIONS[i].to_state = target_state

\* ExecutionContext(issue_id, issue_url, repository) with its field defaults
ExecutionContext ==
    [issue_analysis |-> EmptyDict, impact_assessment |-> EmptyDict,
     execution_plan |-> EmptyDict, generated_patch |-> EmptyDict,
     review_result |-> EmptyDict, validation_result |-> EmptyDict,
     tokens_used |-> 0, retry_count |-> 0, errors |-> <<>>]

\* can_transition_to that calls the guard on a fresh context when none is given
can_transition_to_fresh_context(state, target_state, ctx) ==
    LET valid_transitions == _build_transition_map(state)
        hits == {i \in 1..Len(valid_transitions) :
                    valid_transitions[i].to_state = target_state}
    IN  IF hits = {} THEN FALSE
        ELSE LET transition == valid_transitions[Min(hits)]
             IN  IF transition.guard # "None"
                 THEN CallGuard(transition.guard,
                                IF ctx # None THEN ctx[1] ELSE ExecutionContext)
                 ELSE TRUE

\* StateMachine.can_transition_to: the first declared transition to the target
\* decides; its guard is called only when a context is given
can_transition_to(state, target_state, ctx) ==
    LET valid_transitions == _build_transition_map(state)
        hits == {i \in 1..Len(valid_transitions) :
                    valid_transitions[i].to_state = target_state}
    IN  IF hits = {} THEN FALSE
        ELSE LET transition == valid_transitions[Min(hits)]
             IN  IF transition.guard # "None" /\ ctx # None
                 THEN CallGuard(transition.guard, ctx[1])
                 ELSE TRUE

\* _check_guard_only that never calls the guard
_check_guard_only_unguarded(state, target_state, c) == TRUE

\* StateMachine._check_guard_only
_check_guard_only(state, target_state, c) ==
    LET valid_transitions == _build_transition_map(state)
        hits == {i \in 1..Len(valid_transitions) :
                    /\ valid_transitions[i].to_state = target_state
                    /\ valid_transitions[i].guard # "None"}
    IN  IF hits = {} THEN TRUE
        ELSE CallGuard(valid_transitions[Min(hits)].guard, c)

\* StateMachine.transition_to: "ok", or which InvalidTransitionError it raises
transition_to(state, target_state, ctx) ==
    IF can_transition_to(state, target_state, ctx) THEN "ok"
    ELSE IF ctx # None /\ ~_check_guard_only(state, target_state, ctx[1])
         THEN "Transition guard failed"
         ELSE "Cannot transition"

\* the end of transition_to with the history left as it was
append_history_unrecorded(hist, target_state) == hist

\* the end of a successful transition_to: self.state_history.append(target_state)
append_history(hist, target_state) == Append(hist, target_state)

\* StateMachine.__init__: the fields of a freshly constructed machine
StateMachine_init == [current_state |-> "PENDING", state_history |-> <<"PENDING">>]

\* reset that returns to PENDING and keeps the history
reset_keeps_history(hist) ==
    [current_state |-> "PENDING", state_history |-> Append(hist, "PENDING")]

\* StateMachine.reset: the fields after reset() on a machine with history hist
reset(hist) == [current_state |-> "PENDING", state_history |-> <<"PENDING">>]

is_terminal(state) == state \in {"COMPLETE", "FAILED"}

\* StateMachine.get_next_agent: None for a state without a worker
get_next_agent(state) ==
    CASE state = "ANALYZING" -> Some("issue_intelligence")
      [] state = "ASSESSING" -> Some("impact_assessment")
      [] state = "PLANNING" -> Some("planner")
      [] state = "GENERATING" -> Some("code_generator")
      [] state = "REVIEWING" -> Some("pr_reviewer")
      [] state = "VALIDATING" -> Some("validator")
      [] OTHER -> None

(***************************************************************************)
(* orchestrator/policies.py                                                *)
(***************************************************************************)
max_retries == 3
initial_delay_seconds == 5
max_delay_seconds == 120
exponential_base == 2
rate_limit_delay_seconds == 60
max_tokens_per_issue == 100000
max_tokens_per_agent == 25000

\* BudgetPolicy(): the default limits, and the policies with a per-issue cap
\* of 1000 tokens, the per-agent limit left at its default or lowered too
BudgetPolicy ==
    [max_tokens_per_issue |-> max_tokens_per_issue,
     max_tokens_per_agent |-> max_tokens_per_agent]
CappedBudgetPolicies ==
    {[max_tokens_per_issue |-> 1000, max_tokens_per_agent |-> a] :
        a \in {max_tokens_per_agent, 500}}

\* an exception: its class and the text str(e) gives
Exc(type, text) == [type |-> type, text |-> text]

T_429 == <<"H", "T", "T", "P", " ", "4", "2", "9">>
T_resource_exhausted ==
    <<"r", "e", "s", "o", "u", "r", "c", "e", "_", "e", "x", "h", "a", "u", "s", "t", "e", "d">>
T_rate_limit == <<"r", "a", "t", "e", " ", "l", "i", "m", "i", "t">>
T_Rate_Limit == <<"R", "a", "t", "e", " ", "L", "i", "m", "i", "t">>
T_down == <<"d", "o", "w", "n">>
T_slow == <<"s", "l", "o", "w">>
T_bad == <<"b", "a", "d">>
T_budget ==
    <<"T", "o", "k", "e", "n", " ", "b", "u", "d", "g", "e", "t", " ",
      "e", "x", "c", "e", "e", "d", "e", "d">>

\* RetryPolicy.is_rate_limit_error
is_rate_limit_error(error) ==
    LET error_str == lower(error.text)
    IN  \/ Contains(error_str, <<"4", "2", "9">>)
        \/ Contains(error_str, T_resource_exhausted)
        \/ Contains(error_str, T_rate_limit)

\* should_retry that looks for the markers in str(error) as it is written
should_retry_case_sensitive(att, error) ==
    IF att >= max_retries THEN FALSE
    ELSE IF \/ Contains(error.text, <<"4", "2", "9">>)
            \/ Contains(error.text, T_resource_exhausted)
            \/ Contains(error.text, T_rate_limit)
         THEN TRUE
         ELSE error.type \in {"ConnectionError", "TimeoutError"}

\* should_retry with the class test dropped: every error is retried
should_retry_any_error(att, error) == att < max_retries

\* should_retry with the cap one attempt early
should_retry_one_less(att, error) ==
    /\ att + 1 < max_retries
    /\ \/ is_rate_limit_error(error)
       \/ error.type \in {"ConnectionError", "TimeoutError"}

\* RetryPolicy.should_retry
should_retry(att, error) ==
    IF att >= max_retries THEN FALSE
    ELSE LET error_str == lower(error.text)
         IN  IF \/ Contains(error_str, <<"4", "2", "9">>)
                \/ Contains(error_str, T_resource_exhausted)
                \/ Contains(error_str, T_rate_limit)
             THEN TRUE
             ELSE error.type \in {"ConnectionError", "TimeoutError"}

RECURSIVE Pow(_, _)
Pow(b, n) == IF n = 0 THEN 1 ELSE b * Pow(b, n - 1)

\* get_delay that takes the exponential branch for a rate-limit error too
get_delay_exponential_only(att, is_rate_limit) ==
    LET delay == initial_delay_seconds * Pow(exponential_base, att)
    IN  IF delay <= max_delay_seconds THEN delay ELSE max_delay_seconds

\* RetryPolicy.get_delay
get_delay(att, is_rate_limit) ==
    IF is_rate_limit THEN rate_limit_delay_seconds * (att + 1)
    ELSE LET delay == initial_delay_seconds * Pow(exponential_base, att)
         IN  IF delay <= max_delay_seconds THEN delay ELSE max_delay_seconds

\* check_token_budget that leaves the requested tokens out of the sum
check_token_budget_current_only(current_tokens, requested_tokens) ==
    current_tokens <= budget.max_tokens_per_issue

\* BudgetPolicy.check_token_budget, on the engine's BudgetPolicy
check_token_budget(current_tokens, requested_tokens) ==
    (current_tokens + requested_tokens) <= budget.max_tokens_per_issue

(***************************************************************************)
(* The stage workers: what agent.execute(context) may do.  A worker either *)
(* returns a dict or raises.                                               *)
(***************************************************************************)
AgentNames ==
    {"issue_intelligence", "impact_assessment", "planner", "code_generator",
     "pr_reviewer", "validator"}

\* tokens_used values a metered worker reports
TokenReports == {0, max_tokens_per_agent, 2 * max_tokens_per_agent}

\* BaseAgent.execute's failure dict
FailureResult(retryable) ==
    [success |-> FALSE, error |-> "e", tokens_used |-> 0, retryable |-> retryable]

\* the successful dicts of a stage that report t tokens
SuccessResults(agent_name, t) ==
    CASE agent_name = "issue_intelligence" ->
            {[success |-> TRUE, summary |-> "s", tokens_used |-> t]}
      [] agent_name = "impact_assessment" ->
            {[success |-> TRUE, severity |-> "high", tokens_used |-> t]}
      [] agent_name = "planner" ->
            {[success |-> TRUE, plan_summary |-> "p", tokens_used |-> t]}
      [] agent_name = "code_generator" ->
            {[success |-> TRUE, patches |-> <<"patch">>, tokens_used |-> t]}
      [] agent_name = "pr_reviewer" ->
            {[success |-> TRUE, requires_changes |-> rc, tokens_used |-> t] :
                rc \in BOOLEAN}
      [] agent_name = "validator" ->
            {[success |-> TRUE, tests_passed |-> tp, tokens_used |-> t] :
                tp \in BOOLEAN}

\* The workers registered are test doubles of six kinds:
\*   "stub"    returns a successful dict that reports no tokens;
\*   "metered" returns a successful dict that reports any of TokenReports;
\*   "failing" returns a successful dict that reports no tokens, or the
\*             failure dict;
\*   "faulty"  returns a successful dict that reports no tokens, or raises
\*             one of WorkerErrors;
\*   "slow"    returns a successful dict that reports no tokens, after more
\*             than the whole-task timeout;
\*   "greedy"  returns a successful dict that reports 1500 tokens;
\*   "flaky"   returns a successful dict that reports no tokens, or raises
\*             ConnectionError, in any visit.
WorkerKinds == {"stub", "metered", "failing", "faulty", "slow", "greedy", "flaky"}

\* TimeoutPolicy.total_issue_seconds
total_issue_seconds == 3600

\* the seconds one agent.execute call of a worker of a kind takes
execute_seconds(kind) == IF kind = "slow" THEN total_issue_seconds + 1 ELSE 0

\* the dicts a worker of a kind may return
Results(kind, agent_name) ==
    CASE kind = "stub" -> SuccessResults(agent_name, 0)
      [] kind = "metered" -> UNION {SuccessResults(agent_name, t) : t \in TokenReports}
      [] kind = "failing" ->
            SuccessResults(agent_name, 0) \cup {FailureResult(TRUE), FailureResult(FALSE)}
      [] kind = "faulty" -> SuccessResults(agent_name, 0)
      [] kind = "slow" -> SuccessResults(agent_name, 0)
      [] kind = "greedy" -> SuccessResults(agent_name, 1500)
      [] kind = "flaky" -> SuccessResults(agent_name, 0)

\* the exceptions a worker may raise
WorkerErrors ==
    {Exc("ConnectionError", T_down), Exc("TimeoutError", T_slow),
     Exc("Exception", T_429), Exc("Exception", T_Rate_Limit), Exc("ValueError", T_bad)}

(***************************************************************************)
(* observability/tracing.py                                                *)
(***************************************************************************)
\* ExecutionTracer.start_trace: a fresh current trace
start_trace == [open |-> TRUE, status |-> "running", completions |-> 0, at |-> None]

\* ExecutionTracer.add_event: appended only while there is a current trace
add_event(ev, tr, event_type, agent, data) ==
    IF tr.open
    THEN Append(ev, [event_type |-> event_type, agent |-> agent, data |-> data])
    ELSE ev

\* ExecutionTracer.complete_trace: status set, trace saved, current trace dropped;
\* `at` keeps the state the machine was in when the engine made the call
complete_trace(tr, status, state) ==
    IF tr.open
    THEN [open |-> FALSE, status |-> status, completions |-> tr.completions + 1,
          at |-> Some(state)]
    ELSE tr

(***************************************************************************)
(* orchestrator/engine.py                                                  *)
(***************************************************************************)
\* _update_context that merges the result's keys into the slot's dict
_update_context_merging(agent_name, c, result) ==
    LET merged(old) == [k \in DOMAIN old \cup DOMAIN result |->
                          IF k \in DOMAIN result THEN result[k] ELSE old[k]]
        c1 ==
          CASE agent_name = "issue_intelligence" ->
                  [c EXCEPT !.issue_analysis = merged(@)]
            [] agent_name = "impact_assessment" ->
                  [c EXCEPT !.impact_assessment = merged(@)]
            [] agent_name = "planner" -> [c EXCEPT !.execution_plan = merged(@)]
            [] agent_name = "code_generator" -> [c EXCEPT !.generated_patch = merged(@)]
            [] agent_name = "pr_reviewer" -> [c EXCEPT !.review_result = merged(@)]
            [] agent_name = "validator" -> [c EXCEPT !.validation_result = merged(@)]
            [] OTHER -> c
    IN  [c1 EXCEPT !.tokens_used = @ + Get(result, "tokens_used", 0)]

\* _update_context that leaves the token count alone
_update_context_uncounted(agent_name, c, result) ==
    CASE agent_name = "issue_intelligence" -> [c EXCEPT !.issue_analysis = result]
      [] agent_name = "impact_assessment" -> [c EXCEPT !.impact_assessment = result]
      [] agent_name = "planner" -> [c EXCEPT !.execution_plan = result]
      [] agent_name = "code_generator" -> [c EXCEPT !.generated_patch = result]
      [] agent_name = "pr_reviewer" -> [c EXCEPT !.review_result = result]
      [] agent_name = "validator" -> [c EXCEPT !.validation_result = result]
      [] OTHER -> c

\* Orchestrator._update_context
_update_context(agent_name, c, result) ==
    LET c1 ==
          CASE agent_name = "issue_intelligence" -> [c EXCEPT !.issue_analysis = result]
            [] agent_name = "impact_assessment" -> [c EXCEPT !.impact_assessment = result]
            [] agent_name = "planner" -> [c EXCEPT !.execution_plan = result]
            [] agent_name = "code_generator" -> [c EXCEPT !.generated_patch = result]
            [] agent_name = "pr_reviewer" -> [c EXCEPT !.review_result = result]
            [] agent_name = "validator" -> [c EXCEPT !.validation_result = result]
            [] OTHER -> c
    IN  [c1 EXCEPT !.tokens_used = @ + Get(result, "tokens_used", 0)]

\* next_state_map.get(current) of _advance_state
next_state_map(current) ==
    CASE current = "ANALYZING" -> Some("ASSESSING")
      [] current = "ASSESSING" -> Some("PLANNING")
      [] current = "PLANNING" -> Some("GENERATING")
      [] current = "GENERATING" -> Some("REVIEWING")
      [] current = "REVIEWING" -> Some("VALIDATING")
      [] current = "VALIDATING" -> Some("COMPLETE")
      [] OTHER -> None

\* Orchestrator._advance_state: the state it asks the machine to move to
\* (None: no transition is attempted)
_advance_state(current, c) ==
    IF current = "REVIEWING" /\ Get(c.review_result, "requires_changes", FALSE)
    THEN Some("GENERATING")
    ELSE IF current = "VALIDATING"
            /\ Get(c.validation_result, "tests_passed", FALSE) = FALSE
         THEN Some("GENERATING")
         ELSE next_state_map(current)

\* the context argument of the engine's state_machine.transition_to calls:
\* every call in engine.py passes the target state alone
EngineTransitionContext(c) == None

\* str(e) of the exceptions raised inside process_issue
AgentExecutionError(agent_name, att, error) ==
    [exc |-> "AgentExecutionError", agent |-> agent_name, attempts |-> att,
     text |-> error.text]
InvalidTransitionError(message, from, to) ==
    [exc |-> "InvalidTransitionError", message |-> message, from |-> from, to |-> to]

\* process_issue's `except Exception` block, entered with error text e when the
\* machine is in `state`, the context is c, the events are ev and the trace tr
ExceptionHandler(e, state, hist, c, ev, tr) ==
    /\ context' = [c EXCEPT !.errors = Append(@, e)]
    /\ events' = add_event(ev, tr, "execution_failed", None, [error |-> e])
    /\ trace' = complete_trace(tr, "failed", state)
    /\ IF transition_to(state, "FAILED", EngineTransitionContext(c)) = "ok"
       THEN /\ current_state' = "FAILED"
            /\ state_history' = append_history(hist, "FAILED")
            /\ outcome' = "returned"
       ELSE \* the handler's own transition_to raises: the call raises
            /\ current_state' = state
            /\ state_history' = hist
            /\ outcome' = "raised"
    /\ pc' = "idle"

\* process_issue, from its entry to the first test of the while loop
ProcessIssueStart ==
    /\ pc = "idle"
    /\ calls < MaxCalls
    /\ calls' = calls + 1
    /\ attempt' = 0
    /\ last_error' = None
    /\ sleeps' = <<>>
    /\ invoked' = 0
    /\ faulty_visits' = 0
    /\ UNCHANGED <<agents, budget, sm_call, limiter_vars, policy_vars, bench_vars, qma_vars>>
    /\ LET ev == add_event(<<>>, start_trace, "execution_started", None,
                           [issue_url |-> calls + 1])
           res == transition_to(current_state, "ANALYZING",
                                EngineTransitionContext(ExecutionContext))
       IN  IF res = "ok"
           THEN /\ current_state' = "ANALYZING"
                /\ state_history' = append_history(state_history, "ANALYZING")
                /\ context' = ExecutionContext
                /\ events' = ev
                /\ trace' = start_trace
                /\ pc' = "loop"
                /\ outcome' = "none"
           ELSE ExceptionHandler(InvalidTransitionError(res, current_state, "ANALYZING"),
                                 current_state, state_history, ExecutionContext, ev,
                                 start_trace)

\* how far a call is explored
HistLimit ==
    IF \A a \in DOMAIN agents : agents[a] = "stub" THEN MaxHist ELSE MaxWideHist

\* the while loop of process_issue has ended: the trace is completed and the
\* context returned
LoopFinish ==
    /\ pc = "loop"
    /\ is_terminal(current_state)
    /\ trace' = complete_trace(trace,
                  IF current_state = "COMPLETE" THEN "success" ELSE "failed",
                  current_state)
    /\ outcome' = "returned"
    /\ pc' = "idle"
    /\ UNCHANGED <<current_state, state_history, agents, budget, context, attempt, last_error,
                   events, sleeps, calls, invoked, faulty_visits, sm_call, limiter_vars, policy_vars, bench_vars, qma_vars>>

\* one turn of the while loop whose agent is registered: _execute_agent is entered
LoopDispatch ==
    /\ pc = "loop"
    /\ ~is_terminal(current_state)
    /\ Len(state_history) < HistLimit
    /\ get_next_agent(current_state) # None
    /\ get_next_agent(current_state)[1] \in DOMAIN agents
    /\ pc' = "exec"
    /\ attempt' = 0
    /\ last_error' = None
    /\ UNCHANGED <<current_state, state_history, agents, budget, context, events, trace, sleeps,
                   calls, outcome, invoked, faulty_visits, sm_call, limiter_vars, policy_vars, bench_vars, qma_vars>>

\* one turn of the while loop with no worker for the current state
LoopMissingAgent ==
    /\ pc = "loop"
    /\ ~is_terminal(current_state)
    /\ \/ get_next_agent(current_state) = None
       \/ get_next_agent(current_state)[1] \notin DOMAIN agents
    /\ UNCHANGED <<agents, budget, attempt, last_error, sleeps, calls, invoked, faulty_visits,
                   sm_call, limiter_vars, policy_vars, bench_vars, qma_vars>>
    /\ LET res == transition_to(current_state, "FAILED", EngineTransitionContext(context))
       IN  IF res = "ok"
           THEN /\ current_state' = "FAILED"
                /\ state_history' = append_history(state_history, "FAILED")
                /\ UNCHANGED <<context, events, trace, pc, outcome>>
           ELSE ExceptionHandler(InvalidTransitionError(res, current_state, "FAILED"),
                                 current_state, state_history, context, events, trace)

\* the entry errors.append(f"{agent_name}: {str(last_error)}") makes
StageError(agent_name, error) ==
    [exc |-> "stage", agent |-> agent_name, text |-> error.text]

BudgetExceededError == Exc("BudgetExceededError", T_budget)

\* _execute_agent's `except Exception` block for error e raised in the attempt,
\* and what follows it up to the next attempt; ev are the events so far
HandleAttemptError(agent_name, e, ev) ==
    /\ last_error' = Some(e)
    /\ IF ~should_retry(attempt, e)
       THEN \* break: the stage error is recorded and AgentExecutionError raised,
            \* which process_issue's handler catches
            /\ ExceptionHandler(AgentExecutionError(agent_name, attempt, e),
                  current_state, state_history,
                  [context EXCEPT !.errors = Append(@, StageError(agent_name, e))],
                  ev, trace)
            /\ UNCHANGED <<attempt, sleeps>>
       ELSE /\ sleeps' = Append(sleeps, get_delay(attempt, is_rate_limit_error(e)))
            /\ attempt' = attempt + 1
            /\ IF attempt + 1 <= max_retries
               THEN \* the while test passes: the next attempt follows
                    /\ context' = [context EXCEPT !.retry_count = @ + 1]
                    /\ events' = ev
                    /\ UNCHANGED <<current_state, state_history, trace, pc, outcome>>
               ELSE \* the while loop ends: the same failure path as after break
                    ExceptionHandler(AgentExecutionError(agent_name, attempt + 1, e),
                       current_state, state_history,
                       [context EXCEPT !.retry_count = @ + 1,
                                       !.errors = Append(@, StageError(agent_name, e))],
                       ev, trace)

\* an attempt of _execute_agent whose budget check fails: the worker is not called
ExecBudgetExceeded ==
    /\ pc = "exec"
    /\ ~check_token_budget(context.tokens_used, budget.max_tokens_per_agent)
    /\ HandleAttemptError(get_next_agent(current_state)[1], BudgetExceededError, events)
    /\ UNCHANGED <<agents, budget, calls, invoked, faulty_visits, sm_call, limiter_vars, policy_vars, bench_vars, qma_vars>>

\* an attempt of _execute_agent in which the worker raises e
ExecRaise(e) ==
    /\ pc = "exec"
    /\ check_token_budget(context.tokens_used, budget.max_tokens_per_agent)
    /\ LET agent_name == get_next_agent(current_state)[1]
       IN  /\ \/ /\ agents[agent_name] = "faulty"
                 /\ last_error # None \/ faulty_visits < MaxFaultyVisits
              \/ /\ agents[agent_name] = "flaky"
                 /\ e = Exc("ConnectionError", T_down)
                 /\ Len(sleeps) < MaxFlakyRetries
           /\ HandleAttemptError(agent_name, e,
                 add_event(events, trace, "agent_started", Some(agent_name),
                           [attempt |-> attempt]))
    /\ invoked' = invoked + 1
    /\ faulty_visits' = IF last_error = None THEN faulty_visits + 1 ELSE faulty_visits
    /\ UNCHANGED <<agents, budget, calls, sm_call, limiter_vars, policy_vars, bench_vars, qma_vars>>

\* an attempt of _execute_agent in which the worker returns result, followed by
\* _advance_state
ExecReturn(result) ==
    /\ pc = "exec"
    /\ check_token_budget(context.tokens_used, budget.max_tokens_per_agent)
    /\ LET agent_name == get_next_agent(current_state)[1]
           ev1 == add_event(events, trace, "agent_started", Some(agent_name),
                            [attempt |-> attempt])
           c == _update_context(agent_name, context, result)
           ev2 == add_event(ev1, trace, "agent_completed", Some(agent_name),
                            [result |-> "success"])
           target == _advance_state(current_state, c)
           res == IF target = None THEN "ok"
                  ELSE transition_to(current_state, target[1], EngineTransitionContext(c))
       IN  /\ result \in Results(agents[agent_name], agent_name)
           /\ IF res = "ok"
              THEN /\ context' = c
                   /\ events' = ev2
                   /\ current_state' = IF target = None THEN current_state ELSE target[1]
                   /\ state_history' = IF target = None THEN state_history
                                       ELSE append_history(state_history, target[1])
                   /\ pc' = "loop"
                   /\ UNCHANGED <<trace, outcome>>
              ELSE ExceptionHandler(InvalidTransitionError(res, current_state, target[1]),
                                    current_state, state_history, c, ev2, trace)
    /\ invoked' = invoked + 1
    /\ last_error' = None
    /\ UNCHANGED <<agents, budget, attempt, sleeps, calls, faulty_visits, sm_call, limiter_vars, policy_vars, bench_vars, qma_vars>>

AllResults == UNION {Results(k, a) : k \in WorkerKinds, a \in AgentNames}

(***************************************************************************)
(* integrations/github_client.py: the RateLimiter, the GitHub side it      *)
(* queries, and the callers that pass through wait_if_needed before they   *)
(* make their request.                                                     *)
(***************************************************************************)
safety_margin == 100
check_interval == 60
\* the conservative limits of check_rate_limit's `except Exception` branch
default_remaining == 1000
default_limit == 5000
default_reset_in == 3600

\* time.time() when the limiter is constructed
StartTime == 1000

\* the coroutines that share the limiter
Callers == {"a", "b"}
\* estimated_cost: the two values GitHubClient passes, and a bulk operation
EstimatedCosts == {1, 2, 600}

\* the GitHub side with a full quota, and the quotas the limiter is run against:
\* full, or close to the safety margin, with the reset far or near, the
\* rate-limit endpoint up or failing
RemoteFull ==
    [remaining |-> default_limit, limit |-> default_limit,
     reset_at |-> StartTime + default_reset_in, up |-> TRUE]
Remotes ==
    {[remaining |-> r, limit |-> default_limit, reset_at |-> StartTime + d, up |-> u] :
        r \in {safety_margin, safety_margin + 2, default_limit},
        d \in {10, default_reset_in}, u \in BOOLEAN}

Max(a, b) == IF a >= b THEN a ELSE b

\* RateLimiter.__init__
RateLimiter_init ==
    /\ now = StartTime
    /\ cached_limits = None
    /\ last_check = 0
    /\ rl_pc = [c \in Callers |-> "idle"]
    /\ rl_wake = [c \in Callers |-> 0]
    /\ rl_frame = [c \in Callers |-> None]
    /\ admitted = <<>>

(***************************************************************************)
(* The engine: an Orchestrator constructed with some registry of workers,  *)
(* on which process_issue is called MaxCalls times.                        *)
(***************************************************************************)
\* the registries: every worker registered, all of one kind, or stubs for
\* all stages but one
Registries ==
    {[a \in AgentNames |-> k] : k \in WorkerKinds \ {"flaky"}} \cup
    {[a \in AgentNames |-> IF a = "code_generator" THEN "flaky" ELSE "stub"]} \cup
    {[a \in AgentNames \ {missing} |-> "stub"] : missing \in AgentNames}

\* the state after Orchestrator.__init__ (and StateMachine.__init__)
OrchestratorInit ==
    /\ current_state = StateMachine_init.current_state
    /\ state_history = StateMachine_init.state_history
    /\ \/ agents \in Registries /\ budget = BudgetPolicy
       \/ /\ agents = [a \in AgentNames |-> "greedy"]
          /\ budget \in CappedBudgetPolicies
    /\ context = ExecutionContext
    /\ pc = "idle"
    /\ attempt = 0
    /\ last_error = None
    /\ events = <<>>
    /\ trace = [open |-> FALSE, status |-> "running", completions |-> 0, at |-> None]
    /\ sleeps = <<>>
    /\ calls = 0
    /\ outcome = "none"
    /\ invoked = 0
    /\ faulty_visits = 0
    /\ sm_call = None
    /\ policy_call = None

(***************************************************************************)
(* The benchmark runner: IssueResult, BenchmarkRun and the JSON documents  *)
(* of output_dir.                                                          *)
(***************************************************************************)
RECURSIVE GCD(_, _)
GCD(a, b) == IF b = 0 THEN a ELSE GCD(b, a % b)

Abs(n) == IF n < 0 THEN 0 - n ELSE n

\* the quotient n / d of two ints, kept exact as a fraction in lowest terms
Frac(n, d) == LET g == GCD(Abs(n), d) IN <<n \div g, d \div g>>

\* the difference a - b of two such quotients
FracSub(a, b) == Frac(a[1] * b[2] - b[1] * a[2], a[2] * b[2])

RECURSIVE sum(_)
sum(seq) == IF seq = <<>> THEN 0 ELSE Head(seq) + sum(Tail(seq))

\* the results recorded (tests/test_benchmark_runner.py); cost_usd in
\* thousandths of a dollar
IssueResults ==
    {[issue_id |-> "2", issue_url |-> "url", status |-> "failed",
      execution_time_seconds |-> 80, tokens_used |-> 12000, cost_usd |-> 30,
      tests_passed |-> FALSE, regressions |-> 1, patch_generated |-> FALSE,
      patch_files |-> <<>>, errors |-> <<"e">>, metrics |-> <<>>],
     [issue_id |-> "3", issue_url |-> "url", status |-> "success",
      execution_time_seconds |-> 50, tokens_used |-> 9000, cost_usd |-> 18,
      tests_passed |-> TRUE, regressions |-> 0, patch_generated |-> TRUE,
      patch_files |-> <<"file1.py", "file2.py">>, errors |-> <<>>,
      metrics |-> [lines |-> 1]]}

Repositories == {"test/repo"}

\* the ids f"run_{uuid.uuid4().hex[:12]}" yields, in order
RunIdTable == <<"run_0a1b2c3d4e5f", "run_6f7e8d9c0b1a", "run_112233445566", "run_aabbccddeeff">>
RunIds == {RunIdTable[i] : i \in 1..MaxRuns}

BenchmarkRun(run_id, started_at, completed_at, repository, total_issues) ==
    [run_id |-> run_id, started_at |-> started_at, completed_at |-> completed_at,
     repository |-> repository, total_issues |-> total_issues, results |-> <<>>]

add_result(run, result) ==
    LET results == Append(run.results, result)
    IN  [run EXCEPT !.results = results, !.total_issues = Len(results)]

get_summary(run) ==
    IF run.results = <<>> THEN [status |-> "no_results"]
    ELSE
    LET successful == SelectSeq(run.results, LAMBDA r : r.status = "success")
        failed == SelectSeq(run.results, LAMBDA r : r.status = "failed")
        total_tokens == sum([i \in DOMAIN run.results |-> run.results[i].tokens_used])
        total_cost == sum([i \in DOMAIN run.results |-> run.results[i].cost_usd])
        total_time ==
            sum([i \in DOMAIN run.results |-> run.results[i].execution_time_seconds])
        tests_passed == Len(SelectSeq(run.results, LAMBDA r : r.tests_passed))
        patches_generated == Len(SelectSeq(run.results, LAMBDA r : r.patch_generated))
        total_regressions == sum([i \in DOMAIN run.results |-> run.results[i].regressions])
    IN  [run_id |-> run.run_id,
         repository |-> run.repository,
         total_issues |-> run.total_issues,
         successful |-> Len(successful),
         failed |-> Len(failed),
         success_rate |-> IF run.total_issues > 0
                          THEN Frac(Len(successful), run.total_issues) ELSE Frac(0, 1),
         tests_passed |-> tests_passed,
         test_pass_rate |-> IF run.total_issues > 0
                            THEN Frac(tests_passed, run.total_issues) ELSE Frac(0, 1),
         patches_generated |-> patches_generated,
         total_regressions |-> total_regressions,
         total_tokens |-> total_tokens,
         total_cost_usd |-> total_cost,
         total_time_seconds |-> total_time,
         avg_time_per_issue |-> IF run.total_issues > 0
                                THEN Frac(total_time, run.total_issues) ELSE Frac(0, 1)]

\* dataclasses.asdict on an IssueResult
asdict(r) == [k \in DOMAIN r |-> r[k]]

\* to_dict with the total_issues entry left out
to_dict_without_total(run) ==
    [run_id |-> run.run_id, started_at |-> run.started_at,
     completed_at |-> run.completed_at, repository |-> run.repository,
     summary |-> get_summary(run),
     results |-> [i \in DOMAIN run.results |-> asdict(run.results[i])]]

to_dict(run) ==
    [run_id |-> run.run_id, started_at |-> run.started_at,
     completed_at |-> run.completed_at, repository |-> run.repository,
     total_issues |-> run.total_issues, summary |-> get_summary(run),
     results |-> [i \in DOMAIN run.results |-> asdict(run.results[i])]]

\* JSON values
JStr(s) == [t |-> "string", v |-> s]
JNum(n) == [t |-> "number", v |-> n]
JBool(b) == [t |-> "boolean", v |-> b]
JNull == [t |-> "null", v |-> None]
JArr(items) == [t |-> "array", v |-> items]
JObj(members) == [t |-> "object", v |-> members]

\* json.dump of one asdict(IssueResult)
json_dump_result(d) ==
    JObj([k \in DOMAIN d |->
            CASE k \in {"issue_id", "issue_url", "status"} -> JStr(d[k])
              [] k \in {"tests_passed", "patch_generated"} -> JBool(d[k])
              [] k \in {"patch_files", "errors"} ->
                    JArr([i \in DOMAIN d[k] |-> JStr(d[k][i])])
              [] k = "metrics" -> JObj([m \in DOMAIN d[k] |-> JNum(d[k][m])])
              [] OTHER -> JNum(d[k])])

\* json.dump of a BenchmarkRun.to_dict(); an instant is written as the string
\* isoformat() gives for it, None as null
json_dump(d) ==
    JObj([k \in DOMAIN d |->
            CASE k \in {"run_id", "started_at", "repository"} -> JStr(d[k])
              [] k = "completed_at" ->
                    IF d[k] = None THEN JNull ELSE JStr(d[k][1])
              [] k = "summary" ->
                    JObj([m \in DOMAIN d[k] |->
                            IF m \in {"run_id", "repository", "status"}
                            THEN JStr(d[k][m]) ELSE JNum(d[k][m])])
              [] k = "results" ->
                    JArr([i \in DOMAIN d[k] |-> json_dump_result(d[k][i])])
              [] OTHER -> JNum(d[k])])

\* json.load of a value that is not null
RECURSIVE json_load(_)
json_load(j) ==
    CASE j.t = "array" -> [i \in DOMAIN j.v |-> json_load(j.v[i])]
      [] j.t = "object" -> [k \in DOMAIN j.v |-> json_load(j.v[k])]
      [] OTHER -> j.v

\* json.load of a value that may be null
json_load_optional(j) == IF j.t = "null" THEN None ELSE Some(json_load(j))

\* load_run's body once the file is read: data is the document's top-level object
load_run(data) ==
    LET run == BenchmarkRun(json_load(data["run_id"]),
                            json_load(data["started_at"]),
                            json_load_optional(Get(data, "completed_at", JNull)),
                            json_load(Get(data, "repository", JStr(""))),
                            json_load(Get(data, "total_issues", JNum(0))))
    IN  [run EXCEPT !.results = json_load(Get(data, "results", JArr(<<>>)))]

SWEBenchRunner_init ==
    /\ current_run = None
    /\ files = <<>>
    /\ utcnow = 0
    /\ uuid_count = 0
    /\ bench_call = None
    /\ completed_runs = <<>>

(***************************************************************************)
(* qiskit_multiagent/utils/circuit_locker.py                               *)
(***************************************************************************)
LockerAgents == {"agent_1", "agent_2"}
Circuits == {"circuit_1", "circuit_2"}
LockTypes == {"exclusive", "shared"}

_default_timeout == 30
_max_lock_duration == 60

\* the CircuitLock dataclass; acquired_at defaults to time.time()
CircuitLock(circuit_id, agent_id, lock_type, expires_at, current_time) ==
    [circuit_id |-> circuit_id, agent_id |-> agent_id, acquired_at |-> current_time,
     expires_at |-> expires_at, lock_type |-> lock_type]

\* existing_lock is None or Some(lock)
_is_lock_compatible(existing_lock, requested_type, agent_id, current_time) ==
    IF existing_lock = None THEN TRUE
    ELSE IF existing_lock[1].agent_id = agent_id THEN TRUE
    ELSE IF current_time > existing_lock[1].expires_at THEN TRUE
    ELSE IF existing_lock[1].lock_type = "exclusive" /\ requested_type = "exclusive"
         THEN FALSE
    ELSE IF existing_lock[1].lock_type = "exclusive" /\ requested_type = "shared"
         THEN FALSE
    ELSE IF existing_lock[1].lock_type = "shared" /\ requested_type = "exclusive"
         THEN FALSE
    ELSE TRUE

\* _agent_operations.get(agent_id, set()): the model keeps an entry, possibly
\* empty, for every agent
_detect_deadlock(locks, ops, agent_id) ==
    \E circuit_id \in ops[agent_id] :
        /\ circuit_id \in DOMAIN locks
        /\ locks[circuit_id].agent_id # agent_id
        /\ \E other_circuit_id \in ops[locks[circuit_id].agent_id] :
              /\ other_circuit_id \in DOMAIN locks
              /\ locks[other_circuit_id].agent_id = agent_id

\* the lock map and the index after _resolve_deadlock(agent_id)
_resolve_deadlock(locks, ops, agent_id) ==
    [locks |-> DictDel(locks, ops[agent_id]),
     ops   |-> [ops EXCEPT ![agent_id] = {}]]

\* the lock map and the index after _release_lock(circuit_id, agent_id)
_release_lock(locks, ops, circuit_id, agent_id) ==
    [locks |-> IF circuit_id \in DOMAIN locks /\ locks[circuit_id].agent_id = agent_id
               THEN DictDel(locks, {circuit_id})
               ELSE locks,
     ops   |-> [ops EXCEPT ![agent_id] = @ \ {circuit_id}]]

\* the circuits cleanup_expired_locks collects
expired_locks(locks, current_time) ==
    {circuit_id \in DOMAIN locks :
        \/ current_time > locks[circuit_id].expires_at
        \/ current_time - locks[circuit_id].acquired_at > _max_lock_duration}

\* the agent cleanup_expired_locks looks up for circuit_id, in the lock map
\* from which circuit_id has just been deleted
expired_lock_agent(locks, circuit_id) ==
    LET after == DictDel(locks, {circuit_id})
    IN  IF circuit_id \in DOMAIN after THEN Some(after[circuit_id].agent_id) ELSE None

CircuitLocker_init ==
    /\ _locks = EmptyDict
    /\ _agent_operations = [a \in LockerAgents |-> {}]
    /\ blocks = [a \in LockerAgents |-> <<>>]
    /\ locker_time = 0

(***************************************************************************)
(* qiskit_multiagent/core/resource_manager.py                              *)
(***************************************************************************)
\* the QuantumResource dataclass: the fields allocation reads and writes
QuantumResource(resource_type, capacity) ==
    [resource_type |-> resource_type, capacity |-> capacity,
     current_usage |-> 0, is_available |-> TRUE]

\* _initialize_default_resources, in the order the resources are added
ResourceOrder == <<"aer_simulator_1", "statevector_simulator_1", "quantum_volume_1">>
DefaultResources ==
    [aer_simulator_1         |-> QuantumResource("SIMULATOR", 10),
     statevector_simulator_1 |-> QuantumResource("SIMULATOR", 5),
     quantum_volume_1        |-> QuantumResource("QUANTUM_VOLUME", 2)]

ResourceTypes == {"SIMULATOR", "QUANTUM_VOLUME", "QUANTUM_HARDWARE"}
ResourceAgents == {"agent_1"}
\* the requirements passed: none, and a duration of one second
Requirements == {EmptyDict, [duration |-> 1]}

\* int(time.time() * 1000000) of a time kept in microseconds, and seconds
\* as microseconds
default_duration == 300
Microseconds(seconds) == seconds * 1000000

\* the readings of the clock that are followed, in microseconds: the start,
\* the next microsecond, and the first readings at which an allocation made
\* at the start has expired
ResourceInstants ==
    {0, 1, Microseconds(1) + 1, Microseconds(default_duration) + 1,
     Microseconds(default_duration) + 2}

\* none of the requirements used names a property, so _meets_requirements
\* is True; the sort by current_usage / capacity is stable
_find_suitable_resource(resources, resource_type) ==
    LET suitable_resources ==
            {i \in DOMAIN ResourceOrder :
                LET resource == resources[ResourceOrder[i]]
                IN  /\ resource.resource_type = resource_type
                    /\ ~(~resource.is_available
                          \/ resource.current_usage >= resource.capacity)}
        less(i, j) ==
            LET a == resources[ResourceOrder[i]]
                b == resources[ResourceOrder[j]]
            IN  a.current_usage * b.capacity < b.current_usage * a.capacity
    IN  IF suitable_resources = {} THEN None
        ELSE Some(ResourceOrder[CHOOSE i \in suitable_resources :
                      \A j \in suitable_resources :
                          less(i, j) \/ (~less(j, i) /\ i <= j)])

\* the resources after `resource.current_usage = max(0, current_usage - 1)`
\* for the resource of allocation, if it exists
release_usage(resources, allocation) ==
    IF allocation.resource_id \in DOMAIN resources
    THEN [resources EXCEPT ![allocation.resource_id].current_usage = Max(0, @ - 1)]
    ELSE resources

\* the loop of cleanup_expired_allocations over the expired ids
RECURSIVE release_all(_, _, _)
release_all(resources, allocations, ids) ==
    IF ids = {} THEN resources
    ELSE LET allocation_id == CHOOSE x \in ids : TRUE
         IN  release_all(release_usage(resources, allocations[allocation_id]),
                         allocations, ids \ {allocation_id})

QuantumResourceManager_init ==
    /\ _resources = DefaultResources
    /\ _allocations = EmptyDict
    /\ rm_time = 0
    /\ rm_call = None

(***************************************************************************)
(* qiskit_multiagent/core/coordinator.py and core/agent.py                 *)
(***************************************************************************)
\* the agents handed to MultiAgentCoordinator, in the order of self.agents,
\* and their AgentConfig
AgentOrder == <<"agent_1", "agent_2">>
CoordAgents == {AgentOrder[i] : i \in DOMAIN AgentOrder}
AgentConfigs ==
    [agent_1 |-> [num_qubits |-> 2, max_circuits |-> 1],
     agent_2 |-> [num_qubits |-> 4, max_circuits |-> 1]]

\* TaskPriority.NORMAL.value and TaskPriority.HIGH.value
TaskPriorities == {2, 3}

\* circuits are told apart by num_qubits; all are small and shallow, so the
\* memory and depth tests pass
CoordCircuits == {[num_qubits |-> 1], [num_qubits |-> 3]}

_can_agent_handle_circuit(agent_id, circuit) ==
    ~(circuit.num_qubits > AgentConfigs[agent_id].num_qubits)

\* list.sort is stable: of the agents with the lowest load the first in
\* the order of self.agents is taken.  None stands for the RuntimeError.
_select_agent(preferred_agent, circuit, loads) ==
    IF preferred_agent # None /\ preferred_agent[1] \in CoordAgents
    THEN preferred_agent
    ELSE LET available_agents ==
                 {i \in DOMAIN AgentOrder :
                     _can_agent_handle_circuit(AgentOrder[i], circuit)}
         IN  IF available_agents = {} THEN None
             ELSE LET best == CHOOSE i \in available_agents :
                                  \A j \in available_agents :
                                      \/ loads[AgentOrder[i]] < loads[AgentOrder[j]]
                                      \/ /\ loads[AgentOrder[i]] = loads[AgentOrder[j]]
                                         /\ i <= j
                  IN  Some(AgentOrder[best])

\* QuantumAgent.submit_task: True, or the exception of a put on a full queue
agent_accepts(queues, agent_id) ==
    Len(queues[agent_id]) < AgentConfigs[agent_id].max_circuits

\* the agent _submit_to_agent gives the task to, or None when all refuse
_submit_to_agent(queues) ==
    LET accepting == {i \in DOMAIN AgentOrder : agent_accepts(queues, AgentOrder[i])}
    IN  IF accepting = {} THEN None ELSE Some(AgentOrder[Min(accepting)])

\* PriorityQueue.put of (key, time.time(), task): entries are served by key
\* and, within a key, in the order they were put
RECURSIVE priority_put(_, _)
priority_put(queue, entry) ==
    IF queue = <<>> \/ entry.key < Head(queue).key
    THEN <<entry>> \o queue
    ELSE <<Head(queue)>> \o priority_put(Tail(queue), entry)

MultiAgentCoordinator_init ==
    /\ _task_queue = <<>>
    /\ agent_queues = [a \in CoordAgents |-> <<>>]
    /\ _agent_loads = [a \in CoordAgents |-> 0]
    /\ submitted = <<>>

(***************************************************************************)
(* qiskit_multiagent/core/communication.py                                 *)
(***************************************************************************)
CommAgents == {"agent_1", "agent_2"}
\* the members of MessageType that the agents use
MessageTypes == {"STATUS_UPDATE"}
\* the objects registered as agent references: with and without a
\* handle_message method
AgentReferences == {"handler", "plain"}

\* the AgentMessage dataclass; message_id stands for the uuid4 text, and ttl
\* keeps its default None
AgentMessage(message_id, sender_id, recipient_id, message_type) ==
    [message_id |-> message_id, sender_id |-> sender_id,
     recipient_id |-> recipient_id, message_type |-> message_type,
     attempts |-> 0, max_attempts |-> 3]

\* MessageQueue.subscribe
subscribe(subscribers, agent_id, message_types) ==
    [t \in DOMAIN subscribers \cup message_types |->
        IF t \in message_types
        THEN Get(subscribers, t, {}) \cup {agent_id}
        ELSE subscribers[t]]

\* MessageQueue.get_subscribers
get_subscribers(subscribers, message_type) == Get(subscribers, message_type, {})

\* the recipients _process_message calls handle_message on
recipients_handled(message, subscribers, registered) ==
    LET recipients == IF message.recipient_id # None
                      THEN {message.recipient_id[1]}
                      ELSE get_subscribers(subscribers, message.message_type)
    IN  {recipient_id \in recipients :
            /\ recipient_id \in DOMAIN registered
            /\ registered[recipient_id] = "handler"}

AgentCommunication_init ==
    /\ _agents = EmptyDict
    /\ _subscribers = EmptyDict
    /\ message_queue = <<>>
    /\ sent = <<>>
    /\ delivered = {}

Init ==
    /\ OrchestratorInit
    /\ RateLimiter_init /\ remote = RemoteFull
    /\ SWEBenchRunner_init
    /\ CircuitLocker_init
    /\ QuantumResourceManager_init
    /\ MultiAgentCoordinator_init
    /\ AgentCommunication_init

Next ==
    \/ ProcessIssueStart
    \/ LoopFinish
    \/ LoopDispatch
    \/ LoopMissingAgent
    \/ ExecBudgetExceeded
    \/ \E e \in WorkerErrors : ExecRaise(e)
    \/ \E result \in AllResults : ExecReturn(result)

Spec == Init /\ [][Next]_vars

(***************************************************************************)
(* A stand-alone StateMachine, driven as tests/test_state_machine.py       *)
(* drives it: any transition_to, can_transition_to or reset call, with or  *)
(* without a context.                                                      *)
(***************************************************************************)
\* a context on which every guard holds
GoodContext ==
    [issue_analysis |-> [summary |-> "s"], impact_assessment |-> [severity |-> "high"],
     execution_plan |-> [plan_summary |-> "p"],
     generated_patch |-> [patches |-> <<"patch">>],
     review_result |-> [requires_changes |-> FALSE],
     validation_result |-> [tests_passed |-> TRUE],
     tokens_used |-> 0, retry_count |-> 0, errors |-> <<>>]

\* the contexts passed: the fresh one, the good one, and the good one with one
\* field changed so that one guard is at its boundary or fails
SMContexts ==
    {ExecutionContext, GoodContext,
     [GoodContext EXCEPT !.issue_analysis = [summary |-> ""]],
     [GoodContext EXCEPT !.impact_assessment = EmptyDict],
     [GoodContext EXCEPT !.execution_plan = [plan_summary |-> ""]],
     [GoodContext EXCEPT !.generated_patch = [patches |-> <<>>]],
     [GoodContext EXCEPT !.review_result = [requires_changes |-> TRUE]],
     [GoodContext EXCEPT !.validation_result = [tests_passed |-> FALSE]],
     [GoodContext EXCEPT !.validation_result = EmptyDict],
     [GoodContext EXCEPT !.retry_count = MAX_REWORK - 1],
     [GoodContext EXCEPT !.retry_count = MAX_REWORK],
     [GoodContext EXCEPT !.retry_count = MAX_REWORK + 1],
     [GoodContext EXCEPT !.tokens_used = TOKEN_LIMIT - 1],
     [GoodContext EXCEPT !.tokens_used = TOKEN_LIMIT]}

\* the optional context argument
SMContextArgs == {None} \cup {Some(c) : c \in SMContexts}

\* a call machine.transition_to(target_state, ctx)
SMTransitionTo(target_state, ctx) ==
    /\ Len(state_history) < MaxSMHist
    /\ LET res == transition_to(current_state, target_state, ctx)
       IN  /\ sm_call' = Some([op |-> "transition_to", from |-> current_state,
                               target |-> target_state, ctx |-> ctx, result |-> res,
                               history |-> state_history])
           /\ IF res = "ok"
              THEN /\ current_state' = target_state
                   /\ state_history' = append_history(state_history, target_state)
              ELSE UNCHANGED <<current_state, state_history>>
    /\ UNCHANGED <<engine_vars, policy_vars, bench_vars, qma_vars>>
    /\ UNCHANGED limiter_vars

\* a call machine.can_transition_to(target_state, ctx)
SMCanTransitionTo(target_state, ctx) ==
    /\ sm_call' = Some([op |-> "can_transition_to", from |-> current_state,
                        target |-> target_state, ctx |-> ctx,
                        result |-> can_transition_to(current_state, target_state, ctx),
                        history |-> state_history])
    /\ UNCHANGED <<current_state, state_history>>
    /\ UNCHANGED <<engine_vars, policy_vars, bench_vars, qma_vars>>
    /\ UNCHANGED limiter_vars

\* a call machine.reset()
SMReset ==
    /\ current_state' = reset(state_history).current_state
    /\ state_history' = reset(state_history).state_history
    /\ sm_call' = Some([op |-> "reset", from |-> current_state, target |-> "PENDING",
                        ctx |-> None, result |-> "ok", history |-> state_history])
    /\ UNCHANGED <<engine_vars, policy_vars, bench_vars, qma_vars>>
    /\ UNCHANGED limiter_vars

InitSM == Init /\ agents = [a \in AgentNames |-> "stub"]

NextSM ==
    \/ \E target_state \in ExecutionState, ctx \in SMContextArgs :
          SMTransitionTo(target_state, ctx)
    \/ \E target_state \in ExecutionState, ctx \in SMContextArgs :
          SMCanTransitionTo(target_state, ctx)
    \/ SMReset

SpecSM == InitSM /\ [][NextSM]_vars

(***************************************************************************)
(* A stand-alone RetryPolicy(), called as tests/test_policies.py calls it. *)
(***************************************************************************)
\* sys.float_info.max_exp: 2.0 ** n is out of the range of a float from here on
float_max_exp == 1024

\* whether base ** n raises OverflowError (base a float, n an int)
float_pow_overflows(base, n) == base = 2 /\ n >= float_max_exp

T_RESOURCE_EXHAUSTED ==
    <<"R", "E", "S", "O", "U", "R", "C", "E", "_", "E", "X", "H", "A", "U", "S", "T", "E", "D">>

\* the attempt indexes and the errors the policy is called with
Attempts == 0..MaxAttempt \cup {float_max_exp}
PolicyErrors ==
    WorkerErrors \cup
    {BudgetExceededError, Exc("Exception", T_resource_exhausted),
     Exc("RuntimeError", T_RESOURCE_EXHAUSTED), Exc("ValueError", T_Rate_Limit),
     Exc("KeyError", T_down), Exc("TimeoutError", T_429)}

\* a call policy.should_retry(att, error)
ShouldRetryCall(att, error) ==
    /\ policy_call' = Some([op |-> "should_retry", attempt |-> att, error |-> Some(error),
                            is_rate_limit |-> FALSE,
                            result |-> Some(should_retry(att, error))])
    /\ UNCHANGED <<current_state, state_history, sm_call, engine_vars, limiter_vars, bench_vars, qma_vars>>

\* a call policy.get_delay(att, is_rate_limit): its result, or None when the
\* call raises OverflowError
GetDelayCall(att, is_rate_limit) ==
    /\ policy_call' = Some([op |-> "get_delay", attempt |-> att, error |-> None,
                            is_rate_limit |-> is_rate_limit,
                            result |->
                               IF ~is_rate_limit
                                  /\ float_pow_overflows(exponential_base, att)
                               THEN None
                               ELSE Some(get_delay(att, is_rate_limit))])
    /\ UNCHANGED <<current_state, state_history, sm_call, engine_vars, limiter_vars, bench_vars, qma_vars>>

InitPolicy == Init /\ agents = [a \in AgentNames |-> "stub"]

NextPolicy ==
    \/ \E att \in Attempts, error \in PolicyErrors : ShouldRetryCall(att, error)
    \/ \E att \in Attempts, is_rate_limit \in BOOLEAN : GetDelayCall(att, is_rate_limit)

SpecPolicy == InitPolicy /\ [][NextPolicy]_vars

(***************************************************************************)
(* One SWEBenchRunner and the calls made on it.                            *)
(***************************************************************************)
BenchFrame ==
    UNCHANGED <<current_state, state_history, sm_call, engine_vars, limiter_vars,
                policy_vars, qma_vars>>

start_run(repository) ==
    /\ uuid_count < MaxRuns
    /\ utcnow < MaxInstant
    /\ LET run == BenchmarkRun(RunIdTable[uuid_count + 1], utcnow, None, repository, 0)
       IN  /\ current_run' = Some(run)
           /\ bench_call' = Some([op |-> "start_run", args |-> <<repository>>,
                                  raised |-> "", result |-> Some(run)])
    /\ uuid_count' = uuid_count + 1
    /\ utcnow' = utcnow + 1
    /\ UNCHANGED <<files, completed_runs>>
    /\ BenchFrame

record_result(result) ==
    /\ current_run # None => Len(current_run[1].results) < MaxResults
    /\ current_run' = IF current_run # None
                      THEN Some(add_result(current_run[1], result))
                      ELSE current_run
    /\ bench_call' = Some([op |-> "record_result", args |-> <<result>>,
                           raised |-> "", result |-> None])
    /\ UNCHANGED <<files, utcnow, uuid_count, completed_runs>>
    /\ BenchFrame

complete_run ==
    /\ utcnow < MaxInstant
    /\ IF current_run = None
       THEN /\ bench_call' = Some([op |-> "complete_run", args |-> <<>>,
                                   raised |-> "ValueError", result |-> None])
            /\ UNCHANGED <<current_run, files, utcnow, completed_runs>>
       ELSE LET run == [current_run[1] EXCEPT !.completed_at = Some(utcnow)]
                saved == DOMAIN files \cup {run.run_id}
            IN  /\ current_run' = Some(run)
                /\ utcnow' = utcnow + 1
                /\ files' = [id \in saved |->
                                IF id = run.run_id THEN json_dump(to_dict(run))
                                ELSE files[id]]
                /\ completed_runs' = [id \in saved |->
                                         IF id = run.run_id THEN run
                                         ELSE completed_runs[id]]
                /\ bench_call' = Some([op |-> "complete_run", args |-> <<>>,
                                       raised |-> "", result |-> Some(run.run_id)])
    /\ UNCHANGED uuid_count
    /\ BenchFrame

LoadRun(run_id) ==
    /\ bench_call' =
          IF run_id \notin DOMAIN files
          THEN Some([op |-> "load_run", args |-> <<run_id>>,
                     raised |-> "FileNotFoundError", result |-> None])
          ELSE Some([op |-> "load_run", args |-> <<run_id>>,
                     raised |-> "", result |-> Some(load_run(files[run_id].v))])
    /\ UNCHANGED <<current_run, files, utcnow, uuid_count, completed_runs>>
    /\ BenchFrame

compare_runs(run_id_1, run_id_2) ==
    /\ bench_call' =
          IF {run_id_1, run_id_2} \ DOMAIN files # {}
          THEN Some([op |-> "compare_runs", args |-> <<run_id_1, run_id_2>>,
                     raised |-> "FileNotFoundError", result |-> None])
          ELSE
          LET summary1 == get_summary(load_run(files[run_id_1].v))
              summary2 == get_summary(load_run(files[run_id_2].v))
          IN  IF \/ "success_rate" \notin DOMAIN summary2
                 \/ "success_rate" \notin DOMAIN summary1
              THEN Some([op |-> "compare_runs", args |-> <<run_id_1, run_id_2>>,
                         raised |-> "KeyError", result |-> None])
              ELSE Some([op |-> "compare_runs", args |-> <<run_id_1, run_id_2>>,
                         raised |-> "",
                         result |-> Some(
                            [run_1 |-> run_id_1,
                             run_2 |-> run_id_2,
                             success_rate_delta |->
                                FracSub(summary2.success_rate, summary1.success_rate),
                             test_pass_rate_delta |->
                                FracSub(summary2.test_pass_rate, summary1.test_pass_rate),
                             avg_time_delta |->
                                FracSub(summary2.avg_time_per_issue,
                                        summary1.avg_time_per_issue),
                             cost_delta |->
                                summary2.total_cost_usd - summary1.total_cost_usd])])
    /\ UNCHANGED <<current_run, files, utcnow, uuid_count, completed_runs>>
    /\ BenchFrame

InitBench == Init /\ agents = [a \in AgentNames |-> "stub"]

NextBench ==
    \/ \E repository \in Repositories : start_run(repository)
    \/ \E result \in IssueResults : record_result(result)
    \/ complete_run
    \/ \E run_id \in RunIds : LoadRun(run_id)
    \/ \E run_id_1 \in RunIds, run_id_2 \in RunIds : compare_runs(run_id_1, run_id_2)

SpecBench == InitBench /\ [][NextBench]_vars

(***************************************************************************)
(* The RateLimiter's operations and its callers.                           *)
(***************************************************************************)
\* check_rate_limit that uses the cache whatever its age
check_rate_limit_stale_cache(t) ==
    IF cached_limits # None
    THEN [limits |-> cached_limits[1], cached_limits |-> cached_limits,
          last_check |-> last_check, source |-> "cache"]
    ELSE IF remote.up
         THEN LET limits == [remaining |-> remote.remaining, limit |-> remote.limit,
                             reset_at |-> remote.reset_at,
                             reset_in |-> Max(0, remote.reset_at - t)]
              IN  [limits |-> limits, cached_limits |-> Some(limits), last_check |-> t,
                   source |-> "remote"]
         ELSE [limits |-> [remaining |-> default_remaining, limit |-> default_limit,
                           reset_at |-> t + default_reset_in,
                           reset_in |-> default_reset_in],
               cached_limits |-> cached_limits, last_check |-> last_check,
               source |-> "defaults"]

\* RateLimiter.check_rate_limit called at time t: the limits it returns, the
\* cache it leaves, and where the limits came from
check_rate_limit(t) ==
    IF cached_limits # None /\ t - last_check < check_interval
    THEN [limits |-> cached_limits[1], cached_limits |-> cached_limits,
          last_check |-> last_check, source |-> "cache"]
    ELSE IF remote.up
         THEN LET limits == [remaining |-> remote.remaining, limit |-> remote.limit,
                             reset_at |-> remote.reset_at,
                             reset_in |-> Max(0, remote.reset_at - t)]
              IN  [limits |-> limits, cached_limits |-> Some(limits), last_check |-> t,
                   source |-> "remote"]
         ELSE [limits |-> [remaining |-> default_remaining, limit |-> default_limit,
                           reset_at |-> t + default_reset_in,
                           reset_in |-> default_reset_in],
               cached_limits |-> cached_limits, last_check |-> last_check,
               source |-> "defaults"]

\* the request a caller makes once wait_if_needed has returned: GitHub serves
\* it and counts it, or rejects it when the quota is used up
Request(rem, cost) ==
    IF rem.remaining >= cost THEN [rem EXCEPT !.remaining = @ - cost] ELSE rem

\* what is recorded of a call let through
Admission(c, cost, waited, decided, chk, overlapped) ==
    [caller |-> c, cost |-> cost, waited |-> waited, at |-> now,
     decided |-> decided, source |-> chk.source, view |-> chk.cached_limits,
     actual |-> remote.remaining, actual_reset_at |-> remote.reset_at,
     rejected |-> remote.remaining < cost, overlapped |-> overlapped,
     ever_cached |-> chk.cached_limits # None]

\* wait_if_needed, from its entry to its return or to its asyncio.sleep; a
\* caller that returns makes its request
WaitIfNeeded(c, estimated_cost) ==
    /\ rl_pc[c] = "idle"
    /\ Len(admitted) + Cardinality({d \in Callers : rl_pc[d] = "sleeping"}) < MaxRequests
    /\ LET chk == check_rate_limit(now)
           limits == chk.limits
           wait_time == limits.reset_in + 1
       IN  /\ cached_limits' = chk.cached_limits
           /\ last_check' = chk.last_check
           /\ IF limits.remaining <= estimated_cost + safety_margin /\ wait_time > 0
              THEN /\ rl_pc' = [rl_pc EXCEPT ![c] = "sleeping"]
                   /\ rl_wake' = [rl_wake EXCEPT ![c] = now + wait_time]
                   /\ rl_frame' = [rl_frame EXCEPT ![c] =
                                     Some([estimated_cost |-> estimated_cost,
                                           limits |-> limits, source |-> chk.source])]
                   /\ UNCHANGED <<remote, admitted>>
              ELSE /\ admitted' = Append(admitted,
                          Admission(c, estimated_cost, FALSE, limits, chk,
                                    \E d \in Callers : rl_pc[d] = "sleeping"))
                   /\ remote' = Request(remote, estimated_cost)
                   /\ UNCHANGED <<rl_pc, rl_wake, rl_frame>>
    /\ UNCHANGED <<now, current_state, state_history, sm_call>>
    /\ UNCHANGED <<engine_vars, policy_vars, bench_vars, qma_vars>>

\* wait_if_needed, from the end of its asyncio.sleep to its return; the caller
\* then makes its request
WaitWake(c) ==
    /\ rl_pc[c] = "sleeping"
    /\ now >= rl_wake[c]
    /\ LET chk == check_rate_limit(now)
           frame == rl_frame[c][1]
       IN  /\ cached_limits' = chk.cached_limits
           /\ last_check' = chk.last_check
           /\ admitted' = Append(admitted,
                  Admission(c, frame.estimated_cost, TRUE, frame.limits, chk,
                            \E d \in Callers \ {c} : rl_pc[d] = "sleeping"))
           /\ remote' = Request(remote, frame.estimated_cost)
    /\ rl_pc' = [rl_pc EXCEPT ![c] = "idle"]
    /\ rl_frame' = [rl_frame EXCEPT ![c] = None]
    /\ UNCHANGED <<now, rl_wake, current_state, state_history, sm_call>>
    /\ UNCHANGED <<engine_vars, policy_vars, bench_vars, qma_vars>>

\* the instants at which something changes: a sleep ends, the quota window
\* ends, the cache is about to expire or expires
Instants ==
    {rl_wake[c] : c \in {d \in Callers : rl_pc[d] = "sleeping"}}
    \cup {remote.reset_at}
    \cup (IF cached_limits = None THEN {}
          ELSE {last_check + check_interval - 1, last_check + check_interval})

\* time passes up to the next instant; GitHub starts a new window when one ends
Tick ==
    /\ \E t \in Instants :
          /\ t > now
          /\ t <= StartTime + MaxElapsed
          /\ \A u \in Instants : u > now => t <= u
          /\ now' = t
          /\ remote' = IF t >= remote.reset_at
                       THEN [remote EXCEPT !.remaining = remote.limit,
                                           !.reset_at = @ + default_reset_in]
                       ELSE remote
    /\ UNCHANGED <<cached_limits, last_check, rl_pc, rl_wake, rl_frame, admitted,
                   current_state, state_history, sm_call>>
    /\ UNCHANGED <<engine_vars, policy_vars, bench_vars, qma_vars>>

\* the rate-limit endpoint starts or stops failing
RemoteOutage ==
    /\ remote' = [remote EXCEPT !.up = ~@]
    /\ UNCHANGED <<now, cached_limits, last_check, rl_pc, rl_wake, rl_frame, admitted,
                   current_state, state_history, sm_call>>
    /\ UNCHANGED <<engine_vars, policy_vars, bench_vars, qma_vars>>

InitRL ==
    /\ OrchestratorInit
    /\ agents = [a \in AgentNames |-> "stub"]
    /\ RateLimiter_init
    /\ remote \in Remotes
    /\ SWEBenchRunner_init
    /\ CircuitLocker_init
    /\ QuantumResourceManager_init
    /\ MultiAgentCoordinator_init
    /\ AgentCommunication_init

NextRL ==
    \/ \E c \in Callers, estimated_cost \in EstimatedCosts : WaitIfNeeded(c, estimated_cost)
    \/ \E c \in Callers : WaitWake(c)
    \/ Tick
    \/ RemoteOutage

SpecRL == InitRL /\ [][NextRL]_vars

(***************************************************************************)
(* A CircuitLocker used by the agents of LockerAgents: each enters and     *)
(* leaves acquire_lock blocks, and the maintenance calls run in between.   *)
(* One pass of the loop in _acquire_lock runs under the RLock and is one   *)
(* step.                                                                   *)
(***************************************************************************)
LockerFrame ==
    UNCHANGED <<current_state, state_history, sm_call, engine_vars, limiter_vars,
                policy_vars, bench_vars, resource_vars, coordinator_vars,
                communication_vars>>

\* acquire_lock up to its yield: the pass of _acquire_lock that finds the
\* request compatible
AcquireLock(agent_id, circuit_id, lock_type) ==
    /\ Len(blocks[agent_id]) < MaxDepth
    /\ _is_lock_compatible(IF circuit_id \in DOMAIN _locks
                           THEN Some(_locks[circuit_id]) ELSE None,
                           lock_type, agent_id, locker_time)
    /\ LET new_lock == CircuitLock(circuit_id, agent_id, lock_type,
                                   locker_time + _default_timeout, locker_time)
       IN  /\ _locks' = DictPut(_locks, circuit_id, new_lock)
           /\ _agent_operations' =
                  [_agent_operations EXCEPT ![agent_id] = @ \cup {circuit_id}]
           /\ blocks' = [blocks EXCEPT ![agent_id] = Append(@, new_lock)]
    /\ UNCHANGED locker_time
    /\ LockerFrame

\* a pass of _acquire_lock that finds the request incompatible and a deadlock;
\* a pass that finds no deadlock changes nothing
AcquireBlocked(agent_id, circuit_id, lock_type) ==
    /\ ~_is_lock_compatible(IF circuit_id \in DOMAIN _locks
                            THEN Some(_locks[circuit_id]) ELSE None,
                            lock_type, agent_id, locker_time)
    /\ _detect_deadlock(_locks, _agent_operations, agent_id)
    /\ LET after == _resolve_deadlock(_locks, _agent_operations, agent_id)
       IN  /\ _locks' = after.locks
           /\ _agent_operations' = after.ops
    /\ UNCHANGED <<blocks, locker_time>>
    /\ LockerFrame

\* the finally clause of acquire_lock, for the innermost block of agent_id
ExitBlock(agent_id) ==
    /\ blocks[agent_id] # <<>>
    /\ LET n == Len(blocks[agent_id])
           after == _release_lock(_locks, _agent_operations,
                                  blocks[agent_id][n].circuit_id, agent_id)
       IN  /\ _locks' = after.locks
           /\ _agent_operations' = after.ops
           /\ blocks' = [blocks EXCEPT ![agent_id] = SubSeq(@, 1, n - 1)]
    /\ UNCHANGED locker_time
    /\ LockerFrame

cleanup_expired_locks ==
    /\ LET expired == expired_locks(_locks, locker_time)
       IN  /\ expired # {}
           /\ _locks' = DictDel(_locks, expired)
           /\ _agent_operations' =
                  [a \in LockerAgents |->
                      _agent_operations[a] \
                          {c \in expired : expired_lock_agent(_locks, c) = Some(a)}]
    /\ UNCHANGED <<blocks, locker_time>>
    /\ LockerFrame

force_release_all_locks(agent_id) ==
    /\ _agent_operations[agent_id] # {}
    /\ _locks' = DictDel(_locks, _agent_operations[agent_id])
    /\ _agent_operations' = [_agent_operations EXCEPT ![agent_id] = {}]
    /\ UNCHANGED <<blocks, locker_time>>
    /\ LockerFrame

\* time passes: d seconds, enough for the locks held to expire
LockerElapse(d) ==
    /\ locker_time + d <= MaxLockerTime
    /\ locker_time' = locker_time + d
    /\ UNCHANGED <<_locks, _agent_operations, blocks>>
    /\ LockerFrame

InitLocker == Init /\ agents = [a \in AgentNames |-> "stub"]

NextLocker ==
    \/ \E a \in LockerAgents, c \in Circuits, t \in LockTypes : AcquireLock(a, c, t)
    \/ \E a \in LockerAgents, c \in Circuits, t \in LockTypes : AcquireBlocked(a, c, t)
    \/ \E a \in LockerAgents : ExitBlock(a)
    \/ cleanup_expired_locks
    \/ \E a \in LockerAgents : force_release_all_locks(a)
    \/ LockerElapse(_default_timeout + 1)

SpecLocker == InitLocker /\ [][NextLocker]_vars

(***************************************************************************)
(* An AgentCommunication on which agents register, unregister and          *)
(* broadcast while the communication thread processes the queue.           *)
(* broadcast_message runs on the caller's thread, so the communication     *)
(* thread may take the message between its put and its restoring subscribe.*)
(***************************************************************************)
CommFrame ==
    UNCHANGED <<current_state, state_history, sm_call, engine_vars, limiter_vars,
                policy_vars, bench_vars, locker_vars, resource_vars,
                coordinator_vars>>

register_agent(agent_id, agent_reference, message_types) ==
    /\ _agents' = DictPut(_agents, agent_id, agent_reference)
    /\ _subscribers' = subscribe(_subscribers, agent_id, message_types)
    /\ UNCHANGED <<message_queue, sent, delivered>>
    /\ CommFrame

unregister_agent(agent_id) ==
    /\ agent_id \in DOMAIN _agents
    /\ _agents' = DictDel(_agents, {agent_id})
    /\ UNCHANGED <<_subscribers, message_queue, sent, delivered>>
    /\ CommFrame

\* broadcast_message up to and including message_queue.put
BroadcastPut(sender_id, message_type, exclude_self) ==
    /\ Len(sent) < MaxBroadcasts
    /\ LET message == AgentMessage(Len(sent) + 1, sender_id, None, message_type)
           unsubscribed == IF exclude_self /\ sender_id \in DOMAIN _agents
                           THEN subscribe(_subscribers, sender_id, {})
                           ELSE _subscribers
       IN  /\ _subscribers' = unsubscribed
           /\ message_queue' = Append(message_queue, message)
           /\ sent' = Append(sent, [sender_id |-> sender_id,
                                    message_type |-> message_type,
                                    exclude_self |-> exclude_self,
                                    subscribers |-> get_subscribers(unsubscribed,
                                                                    message_type),
                                    returned |-> FALSE])
    /\ UNCHANGED <<_agents, delivered>>
    /\ CommFrame

\* the rest of broadcast_message: "Restore subscription"
BroadcastRestore(message_id) ==
    /\ message_id \in DOMAIN sent
    /\ ~sent[message_id].returned
    /\ _subscribers' =
          IF sent[message_id].exclude_self /\ sent[message_id].sender_id \in DOMAIN _agents
          THEN subscribe(_subscribers, sent[message_id].sender_id,
                         {sent[message_id].message_type})
          ELSE _subscribers
    /\ sent' = [sent EXCEPT ![message_id].returned = TRUE]
    /\ UNCHANGED <<_agents, message_queue, delivered>>
    /\ CommFrame

\* one pass of _communication_loop that gets a message: _process_message
ProcessMessage ==
    /\ message_queue # <<>>
    /\ LET message == Head(message_queue)
       IN  /\ message.attempts < message.max_attempts
           /\ delivered' = delivered \cup
                  {[message_id |-> message.message_id, recipient_id |-> r] :
                      r \in recipients_handled(message, _subscribers, _agents)}
    /\ message_queue' = Tail(message_queue)
    /\ UNCHANGED <<_agents, _subscribers, sent>>
    /\ CommFrame

InitComm == Init /\ agents = [a \in AgentNames |-> "stub"]

NextComm ==
    \/ \E a \in CommAgents, r \in AgentReferences, ts \in SUBSET MessageTypes :
          register_agent(a, r, ts)
    \/ \E a \in CommAgents : unregister_agent(a)
    \/ \E a \in CommAgents, t \in MessageTypes, e \in BOOLEAN : BroadcastPut(a, t, e)
    \/ \E i \in 1..MaxBroadcasts : BroadcastRestore(i)
    \/ ProcessMessage

SpecComm == InitComm /\ [][NextComm]_vars

(***************************************************************************)
(* A running MultiAgentCoordinator: callers submit tasks, the coordinator  *)
(* thread distributes them, and the agents' threads execute them.          *)
(***************************************************************************)
CoordFrame ==
    UNCHANGED <<current_state, state_history, sm_call, engine_vars, limiter_vars,
                policy_vars, bench_vars, locker_vars, resource_vars,
                communication_vars>>

\* submit_task(circuit, priority, agent_id=agent_id) when _select_agent returns
coordinator_submit_task(circuit, priority, agent_id) ==
    /\ Len(submitted) < MaxTasks
    /\ LET selected_agent_id == _select_agent(agent_id, circuit, _agent_loads)
           task_id == Len(submitted) + 1
       IN  /\ selected_agent_id # None
           /\ _task_queue' = priority_put(_task_queue,
                                 [key |-> priority * (-1), task_id |-> task_id])
           /\ submitted' = Append(submitted,
                                 [circuit |-> circuit, agent_id |-> agent_id,
                                  selected_agent_id |-> selected_agent_id[1],
                                  given_to |-> None])
    /\ UNCHANGED <<agent_queues, _agent_loads>>
    /\ CoordFrame

\* one pass of _coordination_loop that gets a task
CoordinationPass ==
    /\ _task_queue # <<>>
    /\ LET entry == Head(_task_queue)
           agent_id == _submit_to_agent(agent_queues)
       IN  IF agent_id # None
           THEN /\ agent_queues' =
                      [agent_queues EXCEPT ![agent_id[1]] = Append(@, entry.task_id)]
                /\ _agent_loads' = [_agent_loads EXCEPT ![agent_id[1]] = @ + 1]
                /\ submitted' = [submitted EXCEPT ![entry.task_id].given_to = agent_id]
                /\ _task_queue' = Tail(_task_queue)
           ELSE /\ entry.key + 1 <= MaxKey
                /\ _task_queue' = priority_put(Tail(_task_queue),
                                               [entry EXCEPT !.key = @ + 1])
                /\ UNCHANGED <<agent_queues, _agent_loads, submitted>>
    /\ CoordFrame

\* one pass of an agent's _execution_loop that gets a task; the task's
\* callback is _task_callback
AgentExecute(agent_id) ==
    /\ agent_queues[agent_id] # <<>>
    /\ agent_queues' = [agent_queues EXCEPT ![agent_id] = Tail(@)]
    /\ _agent_loads' = [_agent_loads EXCEPT ![agent_id] = Max(0, @ - 1)]
    /\ UNCHANGED <<_task_queue, submitted>>
    /\ CoordFrame

InitCoord == Init /\ agents = [a \in AgentNames |-> "stub"]

NextCoord ==
    \/ \E c \in CoordCircuits, p \in TaskPriorities,
          a \in {None} \cup {Some(x) : x \in CoordAgents \cup {"agent_9"}} :
          coordinator_submit_task(c, p, a)
    \/ CoordinationPass
    \/ \E a \in CoordAgents : AgentExecute(a)

SpecCoord == InitCoord /\ [][NextCoord]_vars

(***************************************************************************)
(* A QuantumResourceManager on which agents allocate and deallocate while  *)
(* the cleanups run.  time.time() does not decrease, and two calls may     *)
(* read it within the same microsecond.                                    *)
(***************************************************************************)
ResourceFrame ==
    UNCHANGED <<current_state, state_history, sm_call, engine_vars, limiter_vars,
                policy_vars, bench_vars, locker_vars, coordinator_vars,
                communication_vars>>

\* the allocate_resource calls made so far are counted in the calls recorded
allocate_resource(agent_id, resource_type, requirements) ==
    /\ LET n == IF rm_call = None THEN 0 ELSE rm_call[1].allocations
           suitable_resource == _find_suitable_resource(_resources, resource_type)
           allocation_id == rm_time
           allocation ==
               [resource_id |-> suitable_resource[1], agent_id |-> agent_id,
                expires_at |-> rm_time + Microseconds(Get(requirements, "duration",
                                                          default_duration)),
                is_active |-> TRUE]
       IN  /\ n < MaxAllocations
           /\ IF suitable_resource # None
              THEN
                /\ _resources' =
                      [_resources EXCEPT ![suitable_resource[1]].current_usage = @ + 1]
                /\ _allocations' = DictPut(_allocations, allocation_id, allocation)
                /\ rm_call' = Some([op |-> "allocate_resource",
                                    allocation_id |-> Some(allocation_id),
                                    result |-> TRUE, allocations |-> n + 1])
              ELSE \* the loop runs out of its timeout and None is returned
                /\ rm_call' = Some([op |-> "allocate_resource",
                                    allocation_id |-> None,
                                    result |-> FALSE, allocations |-> n + 1])
                /\ UNCHANGED <<_resources, _allocations>>
    /\ UNCHANGED rm_time
    /\ ResourceFrame

\* the ids callers hold: those of the live allocations and that of the
\* last call
deallocate_resource(allocation_id) ==
    /\ rm_call # None
    /\ \/ allocation_id \in DOMAIN _allocations
       \/ rm_call[1].allocation_id = Some(allocation_id)
    /\ IF allocation_id \notin DOMAIN _allocations
       THEN /\ rm_call' = Some([rm_call[1] EXCEPT !.op = "deallocate_resource",
                                   !.allocation_id = Some(allocation_id),
                                   !.result = FALSE])
            /\ UNCHANGED <<_resources, _allocations>>
       ELSE IF ~_allocations[allocation_id].is_active
       THEN /\ rm_call' = Some([rm_call[1] EXCEPT !.op = "deallocate_resource",
                                   !.allocation_id = Some(allocation_id),
                                   !.result = FALSE])
            /\ UNCHANGED <<_resources, _allocations>>
       ELSE /\ _resources' = release_usage(_resources, _allocations[allocation_id])
            /\ _allocations' = DictDel(_allocations, {allocation_id})
            /\ rm_call' = Some([rm_call[1] EXCEPT !.op = "deallocate_resource",
                                   !.allocation_id = Some(allocation_id),
                                   !.result = TRUE])
    /\ UNCHANGED rm_time
    /\ ResourceFrame

cleanup_expired_allocations ==
    /\ LET expired_allocations ==
               {allocation_id \in DOMAIN _allocations :
                   rm_time > _allocations[allocation_id].expires_at}
       IN  /\ expired_allocations # {}
           /\ _resources' = release_all(_resources, _allocations, expired_allocations)
           /\ _allocations' = DictDel(_allocations, expired_allocations)
    /\ UNCHANGED <<rm_time, rm_call>>
    /\ ResourceFrame

cleanup_all_allocations ==
    /\ _allocations # EmptyDict
    /\ _resources' = [r \in DOMAIN _resources |->
                         [_resources[r] EXCEPT !.current_usage = 0]]
    /\ _allocations' = EmptyDict
    /\ UNCHANGED <<rm_time, rm_call>>
    /\ ResourceFrame

\* time passes, up to the instant t
ResourceElapse(t) ==
    /\ t > rm_time
    /\ rm_time' = t
    /\ UNCHANGED <<_resources, _allocations, rm_call>>
    /\ ResourceFrame

InitResources == Init /\ agents = [a \in AgentNames |-> "stub"]

NextResources ==
    \/ \E a \in ResourceAgents, t \in ResourceTypes, r \in Requirements :
          allocate_resource(a, t, r)
    \/ \E id \in ResourceInstants : deallocate_resource(id)
    \/ cleanup_expired_allocations
    \/ cleanup_all_allocations
    \/ \E t \in ResourceInstants : ResourceElapse(t)

SpecResources == InitResources /\ [][NextResources]_vars

(***************************************************************************)
(* What the claims speak of.                                               *)
(***************************************************************************)
\* the agents of the agent_completed events, in order: the completed stages
RECURSIVE CompletedStages(_)
CompletedStages(ev) ==
    IF ev = <<>> THEN <<>>
    ELSE LET rest == CompletedStages(SubSeq(ev, 1, Len(ev) - 1))
             e == ev[Len(ev)]
         IN  IF e.event_type = "agent_completed" THEN Append(rest, e.agent[1]) ELSE rest

\* how many times the machine went from state f to state t
EdgeCount(hist, f, t) ==
    Cardinality({i \in 1..(Len(hist) - 1) : hist[i] = f /\ hist[i + 1] = t})

Count(seq, x) == Cardinality({i \in 1..Len(seq) : seq[i] = x})

\* the current call has ended
CallEnded == pc = "idle" /\ calls > 0

(***************************************************************************)
(* C1.  process_issue never raises to its caller: every call, a second     *)
(* call on the same Orchestrator included, returns a context and leaves    *)
(* the state machine in COMPLETE or FAILED.                                *)
(* Refuted: the second call finds the machine still in its terminal state, *)
(* transition_to(ANALYZING) raises, and the handler's own                  *)
(* transition_to(FAILED) raises out of process_issue.                      *)
(***************************************************************************)
C1_NeverRaises ==
    CallEnded => /\ outcome = "returned"
                 /\ current_state \in {"COMPLETE", "FAILED"}

(***************************************************************************)
(* C2.  If the validator reports tests_passed = false on every visit and   *)
(* no worker raises (and the review never asks for changes), the call ends *)
(* FAILED after exactly MAX_REWORK Validate->Generate reworks, with        *)
(* retry_count = MAX_REWORK and a last errors[] entry that reports the     *)
(* rework guard's refusal.                                                 *)
(* Refuted: the engine passes no context to transition_to, so the rework   *)
(* guard is never evaluated, and a rework does not count in retry_count.   *)
(***************************************************************************)
C2_ReworkExhausts ==
    LET reworks == EdgeCount(state_history, "VALIDATING", "GENERATING")
        errs == context.errors
    IN  (/\ calls = 1
         /\ faulty_visits = 0
         /\ EdgeCount(state_history, "VALIDATING", "COMPLETE") = 0
         /\ EdgeCount(state_history, "REVIEWING", "GENERATING") = 0)
        => /\ reworks <= MAX_REWORK
           /\ (CallEnded /\ reworks >= 1) =>
                 /\ current_state = "FAILED"
                 /\ reworks = MAX_REWORK
                 /\ context.retry_count = MAX_REWORK
                 /\ errs # <<>>
                 /\ errs[Len(errs)].exc = "InvalidTransitionError"
                 /\ errs[Len(errs)].message = "Transition guard failed"

(***************************************************************************)
(* C3.  In a call that ends COMPLETE the completed stages are Analyze,     *)
(* Assess, Plan, then Generate/Review(/Validate) rounds ending in          *)
(* Validate, and Generate completes at most MAX_REWORK + 1 times.          *)
(* Refuted in its bound: reworks are not limited (see C2).                 *)
(***************************************************************************)
C3_StagePairs ==
    {<<"issue_intelligence", "impact_assessment">>, <<"impact_assessment", "planner">>,
     <<"planner", "code_generator">>, <<"code_generator", "pr_reviewer">>,
     <<"pr_reviewer", "code_generator">>, <<"pr_reviewer", "validator">>,
     <<"validator", "code_generator">>}

C3_CompletedOrder ==
    LET done == CompletedStages(events)
    IN  (CallEnded /\ outcome = "returned" /\ current_state = "COMPLETE")
        => /\ Len(done) >= 6
           /\ done[1] = "issue_intelligence"
           /\ done[Len(done)] = "validator"
           /\ \A i \in 1..(Len(done) - 1) : <<done[i], done[i + 1]>> \in C3_StagePairs
           /\ Count(done, "code_generator") <= MAX_REWORK + 1

(***************************************************************************)
(* C4.  The engine never advances along a forward edge whose guard is      *)
(* false on the context: it is in Assess only with a non-empty             *)
(* issue_analysis.summary, in Plan only with impact_assessment.severity,   *)
(* in Generate only with execution_plan.plan_summary, in Review only with  *)
(* non-empty generated_patch.patches.                                      *)
(* Refuted: the guards are not evaluated (see C2), so a worker's failure   *)
(* dict is stored in the slot and the next stage is entered.               *)
(***************************************************************************)
C4_GuardedAdvance ==
    /\ current_state = "ASSESSING" => Get(context.issue_analysis, "summary", "") # ""
    /\ current_state = "PLANNING" => Get(context.impact_assessment, "severity", "") # ""
    /\ current_state = "GENERATING" => Get(context.execution_plan, "plan_summary", "") # ""
    /\ current_state = "REVIEWING" => Get(context.generated_patch, "patches", <<>>) # <<>>

(***************************************************************************)
(* C5.  As claimed: during a call context.tokens_used never decreases and  *)
(* never exceeds max_tokens_per_issue, whatever non-negative tokens_used   *)
(* the workers report.                                                     *)
(* Refuted in its second half: the budget is checked before the worker is  *)
(* called, against max_tokens_per_agent, and the worker's report is added  *)
(* unchecked.                                                              *)
(***************************************************************************)
C5_NeverOverCap ==
    /\ [][calls' = calls => context'.tokens_used >= context.tokens_used]_vars
    /\ [](context.tokens_used <= budget.max_tokens_per_issue)

(***************************************************************************)
(* C5, amended.  During a call context.tokens_used never decreases, and an *)
(* invocation whose worker reports at most max_tokens_per_agent tokens     *)
(* never takes it above max_tokens_per_issue: it stays within the cap as   *)
(* long as every report is within max_tokens_per_agent.                    *)
(***************************************************************************)
C5_MonotoneWithinReserve ==
    [][calls' = calls =>
         /\ context'.tokens_used >= context.tokens_used
         /\ (/\ invoked' # invoked
             /\ context'.tokens_used - context.tokens_used
                   <= budget.max_tokens_per_agent)
            => context'.tokens_used <= budget.max_tokens_per_issue]_vars

\* a fourth report of max_tokens_per_agent has brought the count to the cap
C5_Witness ==
    /\ context.tokens_used = max_tokens_per_issue
    /\ invoked = 4
    /\ Get(context.generated_patch, "tokens_used", 0) = max_tokens_per_agent

(***************************************************************************)
(* C6.  When the worker of a stage raises a retryable error                *)
(* (ConnectionError, TimeoutError, or a text with a rate-limit marker) on  *)
(* every call, the engine invokes it exactly max_retries + 1 times in that *)
(* visit, with attempt indices 0..max_retries, sleeping before each retry, *)
(* and the call then ends FAILED with the last error in errors[].          *)
(***************************************************************************)
C6_Retryable(e) ==
    \/ e.type \in {"ConnectionError", "TimeoutError"}
    \/ Contains(lower(e.text), <<"4", "2", "9">>)
    \/ Contains(lower(e.text), T_rate_limit)
    \/ Contains(lower(e.text), T_resource_exhausted)

C6_RetriesThenFails ==
    (CallEnded /\ last_error # None /\ C6_Retryable(last_error[1]))
    => LET n == Len(events)
           agent_name == get_next_agent(state_history[Len(state_history) - 1])
           errs == context.errors
       IN  /\ outcome = "returned"
           /\ current_state = "FAILED"
           /\ n >= max_retries + 3
           /\ events[n].event_type = "execution_failed"
           /\ \A k \in 0..max_retries :
                 /\ events[n - 1 - max_retries + k].event_type = "agent_started"
                 /\ events[n - 1 - max_retries + k].agent = agent_name
                 /\ events[n - 1 - max_retries + k].data.attempt = k
           /\ events[n - 2 - max_retries].event_type # "agent_started"
           /\ Len(sleeps) >= max_retries
           /\ Len(sleeps) = Cardinality({i \in 1..n :
                                /\ events[i].event_type = "agent_started"
                                /\ events[i].data.attempt > 0})
           /\ Len(errs) >= 2
           /\ errs[Len(errs) - 1] = [exc |-> "stage", agent |-> agent_name[1],
                                     text |-> last_error[1].text]
           /\ errs[Len(errs)].exc = "AgentExecutionError"
           /\ errs[Len(errs)].text = last_error[1].text

\* a visit has failed on a rate-limit error after earlier connection errors
C6_Witness ==
    /\ CallEnded
    /\ current_state = "FAILED"
    /\ last_error = Some(Exc("Exception", T_429))
    /\ invoked >= max_retries + 2
    /\ context.retry_count = max_retries

(***************************************************************************)
(* C7.  When the budget check before an invocation fails, the worker is    *)
(* not invoked, nothing is retried (no sleep, retry_count unchanged, no    *)
(* further attempt), and the call ends FAILED with the budget error in     *)
(* errors[].                                                               *)
(***************************************************************************)
C7_BudgetNeverRetried ==
    [][(/\ pc = "exec"
        /\ context.tokens_used + budget.max_tokens_per_agent
              > budget.max_tokens_per_issue)
       => /\ invoked' = invoked
          /\ sleeps' = sleeps
          /\ context'.retry_count = context.retry_count
          /\ context'.tokens_used = context.tokens_used
          /\ Len(events') = Len(events) + 1
          /\ events'[Len(events')].event_type = "execution_failed"
          /\ pc' = "idle"
          /\ outcome' = "returned"
          /\ current_state' = "FAILED"
          /\ \E i \in 1..Len(context'.errors) :
                /\ context'.errors[i].exc = "stage"
                /\ context'.errors[i].text = T_budget]_vars

\* a call has failed on the budget check after three stages ran
C7_Witness ==
    /\ CallEnded
    /\ current_state = "FAILED"
    /\ last_error = Some(BudgetExceededError)
    /\ invoked = 3
    /\ context.retry_count = 0

(***************************************************************************)
(* C8.  After any sequence of transition_to calls every consecutive pair   *)
(* of state_history is a declared edge (the seven linear forward edges,    *)
(* Review->Generate, Validate->Generate, or an edge into FAILED from a     *)
(* non-terminal state); a transition_to along anything else is rejected,   *)
(* and from COMPLETE or FAILED no transition_to succeeds.                  *)
(***************************************************************************)
C8_Edges ==
    {<<"PENDING", "ANALYZING">>, <<"ANALYZING", "ASSESSING">>,
     <<"ASSESSING", "PLANNING">>, <<"PLANNING", "GENERATING">>,
     <<"GENERATING", "REVIEWING">>, <<"REVIEWING", "VALIDATING">>,
     <<"VALIDATING", "COMPLETE">>, <<"REVIEWING", "GENERATING">>,
     <<"VALIDATING", "GENERATING">>} \cup
    {<<st, "FAILED">> : st \in ExecutionState \ {"COMPLETE", "FAILED"}}

C8_OnlyDeclaredEdges ==
    /\ \A i \in 1..(Len(state_history) - 1) :
          <<state_history[i], state_history[i + 1]>> \in C8_Edges
    /\ (sm_call # None /\ sm_call[1].op = "transition_to")
       => /\ <<sm_call[1].from, sm_call[1].target>> \notin C8_Edges
             => /\ sm_call[1].result # "ok"
                /\ state_history = sm_call[1].history
          /\ sm_call[1].from \in {"COMPLETE", "FAILED"}
             => /\ sm_call[1].result # "ok"
                /\ current_state = sm_call[1].from

\* a machine that went through a rework to COMPLETE has refused to leave it
C8_Witness ==
    /\ sm_call # None
    /\ sm_call[1].op = "transition_to"
    /\ sm_call[1].from = "COMPLETE"
    /\ sm_call[1].target = "ANALYZING"
    /\ sm_call[1].result # "ok"
    /\ current_state = "COMPLETE"
    /\ EdgeCount(state_history, "VALIDATING", "GENERATING") = 1

(***************************************************************************)
(* C9.  From each of the seven non-terminal states, PENDING included,      *)
(* transition_to(FAILED) succeeds whatever the context.                    *)
(* Refuted: no PENDING -> FAILED transition is declared, although the      *)
(* table's comment reads "Failure from any state".                         *)
(***************************************************************************)
C9_FailureEdgeEverywhere ==
    (/\ sm_call # None
     /\ sm_call[1].op = "transition_to"
     /\ sm_call[1].target = "FAILED"
     /\ sm_call[1].from \notin {"COMPLETE", "FAILED"})
    => /\ sm_call[1].result = "ok"
       /\ current_state = "FAILED"

(***************************************************************************)
(* C10.  can_transition_to(target, context), called with a context, is     *)
(* true iff an edge from the current state to target is declared and that  *)
(* edge has no guard or its guard holds on the context; PENDING ->         *)
(* ANALYZING is denied when tokens_used >= 100000, and both rework edges   *)
(* when retry_count >= 3.                                                  *)
(***************************************************************************)
C10_Declared(f, t) ==
    {tr \in {VALID_TRANSITIONS[i] : i \in 1..Len(VALID_TRANSITIONS)} :
        tr.from_state = f /\ tr.to_state = t}

C10_CanTransitionIff ==
    (sm_call # None /\ sm_call[1].op = "can_transition_to" /\ sm_call[1].ctx # None)
    => LET f == sm_call[1].from
           t == sm_call[1].target
           c == sm_call[1].ctx[1]
       IN  /\ sm_call[1].result =
                 \E tr \in C10_Declared(f, t) :
                     tr.guard = "None" \/ CallGuard(tr.guard, c)
           /\ (f = "PENDING" /\ t = "ANALYZING" /\ c.tokens_used >= 100000)
              => sm_call[1].result = FALSE
           /\ (f \in {"REVIEWING", "VALIDATING"} /\ t = "GENERATING" /\ c.retry_count >= 3)
              => sm_call[1].result = FALSE
           /\ (f = "REVIEWING" /\ t = "GENERATING" /\ c.retry_count < 3)
              => sm_call[1].result = TRUE

\* the rework edge out of VALIDATING has been denied at retry_count = 3
C10_Witness ==
    /\ sm_call # None
    /\ sm_call[1].op = "can_transition_to"
    /\ sm_call[1].from = "VALIDATING"
    /\ sm_call[1].target = "GENERATING"
    /\ sm_call[1].ctx # None
    /\ sm_call[1].ctx[1].retry_count = 3
    /\ sm_call[1].result = FALSE

(***************************************************************************)
(* C11.  A rejected transition_to raises InvalidTransitionError and leaves *)
(* current_state and state_history as they were; the error's message is    *)
(* "Cannot transition ..." exactly when no edge from the current state to  *)
(* the target is declared, and "Transition guard failed ..." exactly when  *)
(* the edge is declared and its guard denies the context.                  *)
(***************************************************************************)
C11_RejectedLeavesState ==
    (sm_call # None /\ sm_call[1].op = "transition_to" /\ sm_call[1].result # "ok")
    => LET f == sm_call[1].from
           t == sm_call[1].target
       IN  /\ current_state = f
           /\ state_history = sm_call[1].history
           /\ sm_call[1].result \in {"Cannot transition", "Transition guard failed"}
           /\ sm_call[1].result = "Cannot transition" <=> C10_Declared(f, t) = {}
           /\ sm_call[1].result = "Transition guard failed"
              <=> /\ sm_call[1].ctx # None
                  /\ \E tr \in C10_Declared(f, t) :
                        tr.guard # "None" /\ ~CallGuard(tr.guard, sm_call[1].ctx[1])

\* the guard of VALIDATING -> COMPLETE has denied a context with failed tests
C11_Witness ==
    /\ sm_call # None
    /\ sm_call[1].op = "transition_to"
    /\ sm_call[1].from = "VALIDATING"
    /\ sm_call[1].target = "COMPLETE"
    /\ sm_call[1].result = "Transition guard failed"
    /\ current_state = "VALIDATING"
    /\ Len(state_history) = 7

(***************************************************************************)
(* C12.  reset() leaves the machine with the fields of a freshly           *)
(* constructed one, so that any sequence of transition_to calls applied    *)
(* after it gives, step by step, the same accept/reject outcome, the same  *)
(* current_state and the same state_history as on a fresh machine.         *)
(***************************************************************************)
\* the calls replayed: any target, without a context or with one of three
C12_Calls ==
    ExecutionState \X {None, Some(GoodContext), Some(ExecutionContext),
                       Some([GoodContext EXCEPT !.retry_count = MAX_REWORK])}

MaxReplay == 2

\* the machine after each call of s, from a machine with fields m
RECURSIVE C12_Replay(_, _)
C12_Replay(m, s) ==
    IF s = <<>> THEN <<>>
    ELSE LET res == transition_to(m.current_state, s[1][1], s[1][2])
             m2 == IF res = "ok"
                   THEN [current_state |-> s[1][1],
                         state_history |-> Append(m.state_history, s[1][1])]
                   ELSE m
         IN  <<[result |-> res, machine |-> m2]>> \o C12_Replay(m2, Tail(s))

C12_ResetIsFresh ==
    (sm_call # None /\ sm_call[1].op = "reset")
    => LET m == [current_state |-> current_state, state_history |-> state_history]
       IN  /\ m = StateMachine_init
           /\ \A n \in 1..MaxReplay : \A s \in [1..n -> C12_Calls] :
                 C12_Replay(m, s) = C12_Replay(StateMachine_init, s)

\* reset() has been called on a machine that had reached FAILED after a rework
C12_Witness ==
    /\ sm_call # None
    /\ sm_call[1].op = "reset"
    /\ sm_call[1].from = "FAILED"
    /\ EdgeCount(sm_call[1].history, "REVIEWING", "GENERATING") = 1
    /\ current_state = "PENDING"
    /\ state_history = <<"PENDING">>

(***************************************************************************)
(* C13.  Every call that ends FAILED has a non-empty errors[] list, also   *)
(* when it failed because no worker is registered for the current state.   *)
(* Refuted: the missing-worker branch only logs and moves to FAILED;       *)
(* nothing is appended to context.errors.                                  *)
(***************************************************************************)
C13_FailedHasErrors ==
    (CallEnded /\ outcome = "returned" /\ current_state = "FAILED")
    => context.errors # <<>>

(***************************************************************************)
(* C14.  In every completed trace the number of agent_started events       *)
(* equals the number of agent_completed events plus the number of failure  *)
(* events, whether these are read as agent_failed events alone or as       *)
(* agent_failed and execution_failed events: every started attempt is      *)
(* closed by one of them.                                                  *)
(* Refuted: the engine emits no event for an attempt that raises.          *)
(***************************************************************************)
C14_EventCount(ev, types) ==
    Cardinality({i \in 1..Len(ev) : ev[i].event_type \in types})

C14_StartedAreClosed ==
    (CallEnded /\ trace.completions > 0)
    => \E failed \in {{"agent_failed"}, {"agent_failed", "execution_failed"}} :
          C14_EventCount(events, {"agent_started"})
          = C14_EventCount(events, {"agent_completed"}) + C14_EventCount(events, failed)

(***************************************************************************)
(* C15.  Every process_issue call completes its trace exactly once, with   *)
(* status "success" iff the machine ends in COMPLETE and "failed"          *)
(* otherwise, and completes it only when the machine is in that terminal   *)
(* state.                                                                  *)
(* Refuted: the exception handler completes the trace before it moves the  *)
(* machine to FAILED.                                                      *)
(***************************************************************************)
C15_TraceCompletedAtEnd ==
    (CallEnded /\ outcome = "returned")
    => /\ trace.completions = 1
       /\ trace.status = IF current_state = "COMPLETE" THEN "success" ELSE "failed"
       /\ trace.at = Some(current_state)

(***************************************************************************)
(* C16.  Calls that pass through wait_if_needed never exceed the remote    *)
(* quota: a call is let through without waiting only when the quota that   *)
(* actually remains at that moment is greater than estimated_cost +        *)
(* safety_margin, and no call let through finds the quota used up.         *)
(* Refuted: the decision is taken on a view cached for check_interval      *)
(* seconds, which the calls made in between do not lower.                  *)
(***************************************************************************)
C16_NeverExceedsQuota ==
    \A i \in 1..Len(admitted) :
        /\ ~admitted[i].waited => admitted[i].actual > admitted[i].cost + safety_margin
        /\ ~admitted[i].rejected

(***************************************************************************)
(* C17.  A call that wait_if_needed made wait returns no earlier than one  *)
(* second after the reset_at of the limits it decided on, and before it    *)
(* returns the limiter has queried the remote endpoint again, so that the  *)
(* cached view is the one after the reset.                                 *)
(* Refuted: the refresh goes through the cache, and returns the view from  *)
(* before the wait when the wait was shorter than check_interval.          *)
(***************************************************************************)
C17_WaitsThenRefreshes ==
    \A i \in 1..Len(admitted) :
        admitted[i].waited
        => /\ admitted[i].at >= admitted[i].decided.reset_at + 1
           /\ admitted[i].source \in {"remote", "defaults"}
           /\ admitted[i].source = "remote"
              => /\ admitted[i].view # None
                 /\ admitted[i].view[1].remaining = admitted[i].actual
                 /\ admitted[i].view[1].reset_at = admitted[i].actual_reset_at

(***************************************************************************)
(* C18.  Concurrent callers are serialized: at most one caller at a time   *)
(* is between the entry and the return of wait_if_needed, so no call is    *)
(* let through while another caller is waiting for the reset.              *)
(* Refuted: the limiter holds no lock; a caller that arrives during        *)
(* another's asyncio.sleep runs the check on its own.                      *)
(***************************************************************************)
C18_Serialized ==
    /\ Cardinality({c \in Callers : rl_pc[c] = "sleeping"}) <= 1
    /\ \A i \in 1..Len(admitted) : ~admitted[i].overlapped

(***************************************************************************)
(* C19.  When the rate-limit query fails, check_rate_limit returns the     *)
(* conservative limits (remaining 1000, limit 5000, reset in 3600 s), and  *)
(* while every query has failed the calls let through within an hour stay  *)
(* within those 1000: their estimated costs add up to at most              *)
(* default_remaining.                                                      *)
(* Refuted in its second half: the defaults are handed out anew on every   *)
(* call and nothing is counted against them.                               *)
(***************************************************************************)
RECURSIVE C19_Cost(_)
C19_Cost(log) == IF log = <<>> THEN 0 ELSE log[1].cost + C19_Cost(Tail(log))

C19_DefaultsBoundIssue ==
    /\ \A i \in 1..Len(admitted) :
          (admitted[i].source = "defaults" /\ ~admitted[i].waited)
          => admitted[i].decided =
                [remaining |-> 1000, limit |-> 5000,
                 reset_at |-> admitted[i].at + 3600, reset_in |-> 3600]
    /\ (/\ admitted # <<>>
        /\ \A i \in 1..Len(admitted) :
              admitted[i].source = "defaults" /\ ~admitted[i].ever_cached
        /\ admitted[Len(admitted)].at - admitted[1].at < 3600)
       => C19_Cost(admitted) <= default_remaining

(***************************************************************************)
(* C20.  If the whole-task timeout elapses while a worker call or a        *)
(* backoff sleep is in progress, the engine interrupts it: once more than  *)
(* total_issue_seconds have been spent in the call's worker calls and      *)
(* sleeps, the call has ended FAILED with a deadline_exceeded error, and   *)
(* no stage is started afterwards.                                         *)
(* Refuted: the engine never reads the TimeoutPolicy; it awaits the worker *)
(* and sleeps with time.sleep without any deadline.                        *)
(***************************************************************************)
RECURSIVE C20_Sum(_)
C20_Sum(seq) == IF seq = <<>> THEN 0 ELSE seq[1] + C20_Sum(Tail(seq))

\* the seconds the current call has spent in agent.execute and in time.sleep
C20_Elapsed ==
    C20_Sum(sleeps)
    + invoked * (IF \E a \in DOMAIN agents : agents[a] = "slow"
                 THEN execute_seconds("slow") ELSE 0)

C20_DeadlineInterrupts ==
    C20_Elapsed > total_issue_seconds
    => /\ pc = "idle"
       /\ current_state = "FAILED"
       /\ context.errors # <<>>
       /\ context.errors[Len(context.errors)].exc = "deadline_exceeded"

(***************************************************************************)
(* C21.  A worker result with success = false and retryable = true is      *)
(* handled like a retryable exception: it is not stored in the stage's     *)
(* slot and the stage does not count as completed; the worker is invoked   *)
(* again.                                                                  *)
(* Refuted: the engine never reads success or retryable; the failure dict  *)
(* is stored, agent_completed is emitted and the next stage follows.       *)
(***************************************************************************)
C21_Slots ==
    {"issue_analysis", "impact_assessment", "execution_plan", "generated_patch",
     "review_result", "validation_result"}

C21_RetryableResultRetried ==
    \A slot \in C21_Slots :
        ~(/\ Get(context[slot], "success", TRUE) = FALSE
          /\ Get(context[slot], "retryable", FALSE) = TRUE)

(***************************************************************************)
(* C27.  When the first Review returns requires_changes = true and the     *)
(* second requires_changes = false, and nothing else goes wrong, the call  *)
(* ends COMPLETE, the completed stages end Generate, Review, Generate,     *)
(* Review, Validate, and retry_count >= 1 at the end.                      *)
(* Refuted in retry_count: a rework does not count in it (see C2).         *)
(***************************************************************************)
C27_ReworkOnceCompletes ==
    LET done == CompletedStages(events)
        n == Len(done)
    IN  (/\ CallEnded
         /\ calls = 1
         /\ faulty_visits = 0
         /\ EdgeCount(state_history, "REVIEWING", "GENERATING") = 1
         /\ EdgeCount(state_history, "VALIDATING", "GENERATING") = 0
         /\ \A slot \in C21_Slots : Get(context[slot], "success", FALSE)
         /\ Count(done, "validator") = 1)
        => /\ current_state = "COMPLETE"
           /\ n = 8
           /\ SubSeq(done, n - 4, n) = <<"code_generator", "pr_reviewer",
                                         "code_generator", "pr_reviewer", "validator">>
           /\ context.retry_count >= 1

(***************************************************************************)
(* C29.  A stage's slot holds the output returned by the last invocation   *)
(* of its worker that returned: each agent_completed step replaces that    *)
(* stage's slot by the returned dict as a whole, adds the reported tokens  *)
(* and leaves the other slots alone; a step without one, such as an        *)
(* invocation that raises, changes no slot and not the token counter.      *)
(***************************************************************************)
C29_Slot(agent_name) ==
    CASE agent_name = "issue_intelligence" -> "issue_analysis"
      [] agent_name = "impact_assessment" -> "impact_assessment"
      [] agent_name = "planner" -> "execution_plan"
      [] agent_name = "code_generator" -> "generated_patch"
      [] agent_name = "pr_reviewer" -> "review_result"
      [] agent_name = "validator" -> "validation_result"

C28_Started(agent_name) ==
    \E i \in 1..Len(events) :
        events[i].event_type = "agent_started" /\ events[i].agent = Some(agent_name)

C28_CapStopsAfterAnalyze ==
    (/\ CallEnded
     /\ calls = 1
     /\ budget.max_tokens_per_issue = 1000
     /\ \A a \in DOMAIN agents : agents[a] = "greedy")
    => /\ CompletedStages(events) = <<"issue_intelligence">>
       /\ context.issue_analysis \in SuccessResults("issue_intelligence", 1500)
       /\ context.tokens_used = 1500
       /\ current_state = "FAILED"
       /\ ~C28_Started("impact_assessment")

(***************************************************************************)
(* C25.  should_retry(attempt, error) is true iff attempt < max_retries    *)
(* and the error's text contains "429", "rate limit" or                    *)
(* "resource_exhausted", whatever the case of its letters, or the error is *)
(* a ConnectionError or a TimeoutError; every other error, and every       *)
(* attempt >= max_retries, is not retried.                                 *)
(***************************************************************************)
C25_ShouldRetryIff ==
    (policy_call # None /\ policy_call[1].op = "should_retry")
    => LET att == policy_call[1].attempt
           e == policy_call[1].error[1]
       IN  /\ policy_call[1].result = Some(att < max_retries /\ C6_Retryable(e))
           /\ att >= 3 => policy_call[1].result = Some(FALSE)
           /\ (att < 3 /\ e.text = T_RESOURCE_EXHAUSTED)
              => policy_call[1].result = Some(TRUE)

\* an upper-case RESOURCE_EXHAUSTED of a RuntimeError is retried at attempt 2
C25_Witness ==
    /\ policy_call # None
    /\ policy_call[1].op = "should_retry"
    /\ policy_call[1].attempt = max_retries - 1
    /\ policy_call[1].error = Some(Exc("RuntimeError", T_RESOURCE_EXHAUSTED))
    /\ policy_call[1].result = Some(TRUE)

(***************************************************************************)
(* C26.  get_delay(0) is initial_delay_seconds, and for every attempt      *)
(* N >= 0 get_delay(N) is min(initial_delay * exponential_base^N,          *)
(* max_delay_seconds): it never decreases with N and never exceeds         *)
(* max_delay_seconds.                                                      *)
(* Refuted for large N: exponential_base ** attempt is computed before the *)
(* cap is applied, and raises OverflowError from attempt 1024 on.          *)
(***************************************************************************)
C26_DelayCapped ==
    (/\ policy_call # None
     /\ policy_call[1].op = "get_delay"
     /\ ~policy_call[1].is_rate_limit)
    => LET N == policy_call[1].attempt
           res == policy_call[1].result
       IN  /\ res # None
           /\ res[1] <= max_delay_seconds
           /\ N = 0 => res[1] = initial_delay_seconds
           /\ N <= MaxAttempt
              => /\ res[1] = Min({initial_delay_seconds * Pow(exponential_base, N),
                                  max_delay_seconds})
                 /\ N > 0 => res[1] >= get_delay(N - 1, FALSE)

(***************************************************************************)
(* C22.  start_run, any number of record_result calls (none included),     *)
(* complete_run and then load_run(run_id) give a run whose run_id,         *)
(* started_at, completed_at, repository, total_issues and ordered results  *)
(* equal those of the run that was completed.                              *)
(***************************************************************************)
C22_LoadedEqualsCompleted ==
    (/\ bench_call # None
     /\ bench_call[1].op = "load_run"
     /\ bench_call[1].args[1] \in DOMAIN completed_runs)
    => /\ bench_call[1].raised = ""
       /\ LET loaded == bench_call[1].result[1]
              original == completed_runs[bench_call[1].args[1]]
          IN  /\ loaded.run_id = original.run_id
              /\ loaded.started_at = original.started_at
              /\ loaded.completed_at = original.completed_at
              /\ loaded.completed_at # None
              /\ loaded.repository = original.repository
              /\ loaded.total_issues = original.total_issues
              /\ loaded.total_issues = Len(loaded.results)
              /\ loaded.results = original.results

\* a run of two results, one of them with patch files and metrics, is loaded
C22_Witness ==
    /\ bench_call # None
    /\ bench_call[1].op = "load_run"
    /\ bench_call[1].raised = ""
    /\ Len(bench_call[1].result[1].results) = 2
    /\ \E i \in 1..2 : bench_call[1].result[1].results[i].patch_files # <<>>

(***************************************************************************)
(* C23.  A run is frozen after completion: once complete_run has returned, *)
(* a later record_result leaves the completed run's results, total_issues  *)
(* and completed_at as they were.                                          *)
(* Refuted: complete_run keeps the run as current_run and record_result    *)
(* appends to it.                                                          *)
(***************************************************************************)
C23_FrozenAfterCompletion ==
    [][(/\ current_run # None
        /\ current_run[1].completed_at # None
        /\ bench_call' # None
        /\ bench_call'[1].op = "record_result")
       => /\ current_run'[1].results = current_run[1].results
          /\ current_run'[1].total_issues = current_run[1].total_issues
          /\ current_run'[1].completed_at = current_run[1].completed_at]_vars

(***************************************************************************)
(* C24.  compare_runs(a, b) on two completed runs returns the four deltas, *)
(* each run b's summary value minus run a's; a run with no results counts  *)
(* with rates 0 and causes no error.                                       *)
(* Refuted: the summary of a run with no results is {"status":             *)
(* "no_results"} and compare_runs raises KeyError on it.                   *)
(***************************************************************************)
C24_Total(run, field) == sum([i \in DOMAIN run.results |-> run.results[i][field]])

C24_Rate(n, total) == IF total > 0 THEN Frac(n, total) ELSE Frac(0, 1)

C24_DeltasOfSummaries ==
    (/\ bench_call # None
     /\ bench_call[1].op = "compare_runs"
     /\ bench_call[1].args[1] \in DOMAIN files
     /\ bench_call[1].args[2] \in DOMAIN files)
    => /\ bench_call[1].raised = ""
       /\ LET a == load_run(files[bench_call[1].args[1]].v)
              b == load_run(files[bench_call[1].args[2]].v)
              n(run) == Len(run.results)
              ok(run) == Len(SelectSeq(run.results, LAMBDA r : r.status = "success"))
              passed(run) == Len(SelectSeq(run.results, LAMBDA r : r.tests_passed))
              deltas == bench_call[1].result[1]
          IN  /\ deltas.success_rate_delta
                    = FracSub(C24_Rate(ok(b), n(b)), C24_Rate(ok(a), n(a)))
              /\ deltas.test_pass_rate_delta
                    = FracSub(C24_Rate(passed(b), n(b)), C24_Rate(passed(a), n(a)))
              /\ deltas.avg_time_delta
                    = FracSub(C24_Rate(C24_Total(b, "execution_time_seconds"), n(b)),
                              C24_Rate(C24_Total(a, "execution_time_seconds"), n(a)))
              /\ deltas.cost_delta = C24_Total(b, "cost_usd") - C24_Total(a, "cost_usd")

(***************************************************************************)
(* C31.  At the end of a call context.retry_count is at most MAX_REWORK    *)
(* times the number of distinct stages in which a retry occurred, whatever *)
(* the workers' failures and the reworks.                                  *)
(* Refuted: a stage visited again after a rework retries again, and every  *)
(* visit may add up to max_retries retries for the same stage.             *)
(***************************************************************************)
C31_StagesThatRetried ==
    {events[i].agent : i \in {j \in 1..Len(events) :
                                 /\ events[j].event_type = "agent_started"
                                 /\ events[j].data.attempt > 0}}

C31_RetryCap ==
    CallEnded => context.retry_count <= MAX_REWORK * Cardinality(C31_StagesThatRetried)

(***************************************************************************)
(* C32.  When the first call of a stage's worker raises an error with      *)
(* "429" in its text and the second call returns, the engine has slept     *)
(* rate_limit_delay_seconds * (0 + 1) seconds, at least the rate-limit     *)
(* base, before the retry; the visit has exactly two agent_started events, *)
(* with attempts 0 and 1; the retry added exactly 1 to retry_count; and    *)
(* the call can still end COMPLETE.                                        *)
(***************************************************************************)
C32_Retries(ev) ==
    Cardinality({i \in 1..Len(ev) : /\ ev[i].event_type = "agent_started"
                                    /\ ev[i].data.attempt > 0})

C32_RateLimitRetry ==
    [][(/\ pc = "exec"
        /\ attempt = 1
        /\ last_error # None
        /\ Contains(last_error[1].text, <<"4", "2", "9">>)
        /\ last_error' = None)
       => LET n == Len(events')
              agent_name == get_next_agent(current_state)
          IN  /\ sleeps # <<>>
              /\ sleeps[Len(sleeps)] = rate_limit_delay_seconds * (0 + 1)
              /\ sleeps[Len(sleeps)] >= rate_limit_delay_seconds
              /\ sleeps' = sleeps
              /\ n >= 3
              /\ events'[n].event_type = "agent_completed"
              /\ events'[n].agent = agent_name
              /\ events'[n - 1].event_type = "agent_started"
              /\ events'[n - 1].agent = agent_name
              /\ events'[n - 1].data.attempt = 1
              /\ events'[n - 2].event_type = "agent_started"
              /\ events'[n - 2].agent = agent_name
              /\ events'[n - 2].data.attempt = 0
              /\ n > 3 => events'[n - 3].event_type # "agent_started"
              /\ context'.retry_count = context.retry_count
              /\ context'.retry_count = C32_Retries(events')
              /\ C32_Retries(SubSeq(events', 1, n - 3)) = context'.retry_count - 1]_vars

\* such a call has ended COMPLETE after its one retry
C32_Witness ==
    /\ CallEnded
    /\ current_state = "COMPLETE"
    /\ outcome = "returned"
    /\ sleeps = <<rate_limit_delay_seconds>>
    /\ context.retry_count = 1
    /\ C32_Retries(events) = 1

(***************************************************************************)
(* C33.  state_history starts as [PENDING]; each successful transition_to  *)
(* appends exactly one entry, the new state; nothing else changes it       *)
(* except reset; and its last element is always current_state.             *)
(***************************************************************************)
C33_Step ==
    LET call == sm_call'[1]
    IN  /\ (call.op = "transition_to" /\ call.result = "ok")
           => /\ state_history' = Append(state_history, call.target)
              /\ Len(state_history') = Len(state_history) + 1
              /\ current_state' = call.target
        /\ (call.op = "transition_to" /\ call.result # "ok")
           => state_history' = state_history /\ current_state' = current_state
        /\ call.op = "can_transition_to"
           => state_history' = state_history /\ current_state' = current_state
        /\ state_history' # state_history
           => \/ call.op = "transition_to" /\ call.result = "ok"
              \/ call.op = "reset"

C33_HistoryTracksState ==
    /\ state_history = <<"PENDING">>
    /\ [](state_history # <<>> /\ state_history[Len(state_history)] = current_state)
    /\ [][C33_Step]_vars

\* a walk of three transitions, after a rejected one and a query
C33_Witness ==
    /\ state_history = <<"PENDING", "ANALYZING", "ASSESSING", "PLANNING">>
    /\ sm_call # None
    /\ sm_call[1].op = "transition_to"
    /\ sm_call[1].result = "ok"
    /\ sm_call[1].target = "PLANNING"

(***************************************************************************)
(* C34.  When can_transition_to / transition_to is called without a        *)
(* context no guard is evaluated and every declared edge is permitted: the *)
(* whole pipeline PENDING -> ANALYZING -> ... -> VALIDATING -> COMPLETE    *)
(* can be walked with no context although each forward edge has a guard.   *)
(***************************************************************************)
C34_Pipeline ==
    <<"PENDING", "ANALYZING", "ASSESSING", "PLANNING", "GENERATING", "REVIEWING",
      "VALIDATING", "COMPLETE">>

C34_NoContextNoGuard ==
    (sm_call # None /\ sm_call[1].ctx = None /\ sm_call[1].op # "reset")
    => LET f == sm_call[1].from
           t == sm_call[1].target
           declared == C10_Declared(f, t) # {}
           forward == \E i \in 1..(Len(C34_Pipeline) - 1) :
                         f = C34_Pipeline[i] /\ t = C34_Pipeline[i + 1]
       IN  /\ sm_call[1].op = "can_transition_to" => sm_call[1].result = declared
           /\ sm_call[1].op = "transition_to"
              => /\ (sm_call[1].result = "ok") = declared
                 /\ sm_call[1].result \in {"ok", "Cannot transition"}
           /\ forward
              => /\ \A tr \in C10_Declared(f, t) : tr.guard # "None"
                 /\ sm_call[1].op = "can_transition_to" => sm_call[1].result = TRUE
                 /\ sm_call[1].op = "transition_to" => sm_call[1].result = "ok"

\* COMPLETE has been entered without a context at the end of the linear walk,
\* along an edge whose guard rejects the fresh context
C34_Witness ==
    /\ state_history = C34_Pipeline
    /\ sm_call # None
    /\ sm_call[1].op = "transition_to"
    /\ sm_call[1].ctx = None
    /\ sm_call[1].result = "ok"
    /\ ~can_transition_to("VALIDATING", "COMPLETE", Some(ExecutionContext))

(***************************************************************************)
(* C35.  check_rate_limit returns the cached quota values, without         *)
(* querying the remote endpoint, iff a successful refresh happened less    *)
(* than check_interval (60 s) earlier; otherwise it queries the remote     *)
(* endpoint and, when the query succeeds, stores the new values together   *)
(* with the time of the refresh.                                           *)
(***************************************************************************)
\* the callers whose step has just called check_rate_limit on entry to
\* wait_if_needed, and what the call returned to them
C35_Entered == {c \in Callers : rl_pc[c] = "idle" /\ rl_pc'[c] = "sleeping"}

C35_Returned ==
    IF C35_Entered # {}
    THEN LET c == CHOOSE d \in C35_Entered : TRUE
         IN  [source |-> rl_frame'[c][1].source, limits |-> rl_frame'[c][1].limits]
    ELSE LET a == admitted'[Len(admitted')]
         IN  [source |-> a.source,
              limits |-> IF a.waited THEN a.view[1] ELSE a.decided]

C35_CacheIffFresh ==
    [][(C35_Entered # {} \/ admitted' # admitted)
       => LET fresh == cached_limits # None /\ now - last_check < check_interval
              ret == C35_Returned
          IN  /\ (ret.source = "cache") = fresh
              /\ fresh => /\ ret.limits = cached_limits[1]
                          /\ cached_limits' = cached_limits
                          /\ last_check' = last_check
                          /\ last_check <= now /\ now < last_check + 60
              /\ (~fresh /\ remote.up)
                 => /\ ret.source = "remote"
                    /\ ret.limits.remaining = remote.remaining
                    /\ ret.limits.reset_at = remote.reset_at
                    /\ cached_limits' = Some(ret.limits)
                    /\ last_check' = now
              /\ (~fresh /\ ~remote.up)
                 => /\ ret.source = "defaults"
                    /\ cached_limits' = cached_limits
                    /\ last_check' = last_check]_vars

\* a call 60 s after the last refresh has queried the remote endpoint again
\* although a cache existed
C35_Witness ==
    /\ admitted # <<>>
    /\ admitted[Len(admitted)].source = "remote"
    /\ Len(admitted) >= 2
    /\ admitted[1].source = "remote"
    /\ last_check = now
    /\ admitted[Len(admitted)].at >= admitted[1].at + check_interval

(***************************************************************************)
(* The agent -> circuits index of a CircuitLocker.                         *)
(***************************************************************************)
\* C36: circuit c is in _agent_operations[a] exactly when _locks[c] exists
\* and is held by agent a.
C36_IndexAgreesWithLocks ==
    \A a \in LockerAgents, c \in Circuits :
        c \in _agent_operations[a] <=> (c \in DOMAIN _locks /\ _locks[c].agent_id = a)

(***************************************************************************)
(* Exclusive and shared blocks of a CircuitLocker.                         *)
(***************************************************************************)
\* agent a is inside an acquire_lock block on circuit c with a lock of type t
C37_Inside(a, c, t) ==
    \E i \in DOMAIN blocks[a] :
        blocks[a][i].circuit_id = c /\ blocks[a][i].lock_type = t

\* the same, with a lock that has not expired
C37_InsideUnexpired(a, c, t) ==
    \E i \in DOMAIN blocks[a] :
        /\ blocks[a][i].circuit_id = c /\ blocks[a][i].lock_type = t
        /\ locker_time <= blocks[a][i].expires_at

\* C37: while an agent is inside an exclusive block on a circuit whose lock
\* has not expired, no other agent is inside a block, exclusive or shared,
\* on that circuit.
C37_ExclusiveExcludes ==
    \A a \in LockerAgents, c \in Circuits : \A b \in LockerAgents \ {a} :
        C37_InsideUnexpired(a, c, "exclusive") =>
            \A t \in LockTypes : ~C37_Inside(b, c, t)

(***************************************************************************)
(* Broadcasts that exclude their sender.                                   *)
(***************************************************************************)
\* C38: a broadcast sent with exclude_self=True is delivered only to agents
\* that subscribed to its message type when it was enqueued, and never to
\* its sender.
C38_ExcludeSelf ==
    \A d \in delivered :
        sent[d.message_id].exclude_self =>
            d.recipient_id \in
                sent[d.message_id].subscribers \ {sent[d.message_id].sender_id}

(***************************************************************************)
(* The agent a submitted task is dispatched to.                            *)
(***************************************************************************)
\* C39: a task is given to the agent _select_agent chose for it when it was
\* submitted: the registered agent named in agent_id, else the least-loaded
\* agent that can handle the circuit.
C39_DispatchedToSelected ==
    \A t \in DOMAIN submitted :
        submitted[t].given_to # None =>
            submitted[t].given_to = Some(submitted[t].selected_agent_id)

(***************************************************************************)
(* The usage counts of a QuantumResourceManager.                           *)
(***************************************************************************)
\* the live allocations that reference resource r
C40_Live(r) == {id \in DOMAIN _allocations : _allocations[id].resource_id = r}

\* a deallocate_resource call that repeats the successful one before it
C40_SecondDeallocation ==
    /\ rm_call # None /\ rm_call' # None /\ rm_call' # rm_call
    /\ rm_call[1].op = "deallocate_resource" /\ rm_call[1].result
    /\ rm_call'[1].op = "deallocate_resource"
    /\ rm_call'[1].allocation_id = rm_call[1].allocation_id

\* C40: every resource's current_usage equals the number of live allocations
\* that reference it and never exceeds its capacity, and deallocating an
\* allocation id a second time returns False and changes no count.
C40_UsageMatchesAllocations ==
    /\ [](\A r \in DOMAIN _resources :
              /\ _resources[r].current_usage = Cardinality(C40_Live(r))
              /\ _resources[r].current_usage <= _resources[r].capacity)
    /\ [][C40_SecondDeallocation =>
              ~rm_call'[1].result /\ _resources' = _resources]_vars

====
